---- MODULE Spec2Model ----
(***************************************************************************)
(* A model of the lock-freedom library: the hazard-pointer registry        *)
(* (mechanisms/hp.rs), the Michael-Scott queue (collections/ms_queue.rs),  *)
(* the optimistic queue (collections/optimistic_ms_queue.rs), the Treiber  *)
(* stack with elimination (collections/treiber_stack.rs) and the           *)
(* single-writer RCU cell (mechanisms/rcu.rs).                             *)
(*                                                                         *)
(* Every atomic load, store and compare-exchange of the source is one      *)
(* step of the thread that performs it; steps of different threads         *)
(* interleave (sequentially consistent memory).  compare_exchange_weak may *)
(* fail although the expected value is present.  Thread-local work         *)
(* (Cell/RefCell fields, locals) is folded into the neighbouring step.     *)
(*                                                                         *)
(* Memory: an address is "fresh" (never handed out), "live" or "freed".    *)
(* Box::new takes the lowest fresh address or any freed one.  A read of    *)
(* freed memory is undefined behaviour; it yields the stale content or 0   *)
(* (the allocator may have overwritten the chunk), and the access is       *)
(* recorded in hist.uaf.                                                   *)
(***************************************************************************)
EXTENDS Integers, Sequences, FiniteSets, TLC

\* ---- bounds of the model
NThreads == 2
MaxNodes == 4
MaxPut == 1
MaxTake == 1
MaxDrop == 1
MaxHeld == 3
MaxRead == 2
MaxUpdate == 2
MaxRetire == 34
MaxInitial == 7
MaxExponent == 3
NRegistrants == 5

\* ---- program constants
MAX_THREADS == 4
HP_PER_THREAD == 16
SCAN_THRESHOLD == 2 * HP_PER_THREAD
ELIMINATION_ARRAY_SIZE == 8
ELIMINATION_THRESHOLD == 4
EMPTY == 0
POP == 1

NULL == 0
Threads == 1..NThreads
Addr == 1..MaxNodes
NSlots == MAX_THREADS * HP_PER_THREAD

VARIABLES
    heap,              \* Addr -> [st, data, next, prev]: the Box-allocated nodes
    head, tail,        \* the structure's AtomicPtr fields
    p_list,            \* HazardPointerArray.p_list
    thread_registry,   \* HazardPointerArray.thread_registry, as the set of its 1 bits
    guard,             \* each thread's HazardPointerGuard (live = it exists)
    pc,                \* each thread's position in the code
    loc,               \* each thread's local variables
    hist,              \* history: values handed out, enqueues returned, dequeues, freed accesses
    elimination_array, \* TreiberStack.elimination_array
    rcu,               \* the Rcu cell: ptr_and_epoch, previous_ptr, readers
    THREAD_RECORD      \* rcu.rs thread-local nested-read counters

vars == <<heap, head, tail, p_list, thread_registry, guard, pc, loc, hist,
          elimination_array, rcu, THREAD_RECORD>>
hpVars == <<p_list, thread_registry, guard>>
otherVars == <<elimination_array, rcu, THREAD_RECORD>>

Min(S) == CHOOSE x \in S : \A y \in S : x <= y

\* u64::trailing_zeros of a non-zero bitmap held as the set of its 1 bits
trailing_zeros(bits) == Min(bits)

\* ------------------------------------------------------------------ memory

Node(d, n) == [st |-> "live", data |-> d, next |-> n, prev |-> NULL]
FreshNode == [st |-> "fresh", data |-> 0, next |-> NULL, prev |-> NULL]

\* the addresses Box::new may return
Allocatable(h) ==
    LET fresh == {a \in Addr : h[a].st = "fresh"}
    IN  {a \in Addr : h[a].st = "freed"} \cup (IF fresh = {} THEN {} ELSE {Min(fresh)})

\* drop(Box::from_raw(p)): the chunk keeps its bytes until it is handed out again
Free(h, ptrs) == [a \in DOMAIN h |-> IF a \in ptrs THEN [h[a] EXCEPT !.st = "freed"] ELSE h[a]]

\* the values a load of field f of *p can return
Loads(h, p, f) == IF h[p].st = "live" THEN {h[p][f]} ELSE {h[p][f], 0}

\* record in hist.uaf that `site` dereferenced p while p was freed
Touch(hs, h, p, site) ==
    IF h[p].st = "live" THEN hs ELSE [hs EXCEPT !.uaf = @ \cup {site}]

\* ---------------------------------------------------------- hazard pointers

NoPP == [ptr |-> NULL, index |-> -1]
NoGuard == [live |-> FALSE, starting_idx |-> 0, available_indices |-> {}, d_list |-> <<>>]

\* protect without the null check
protect_unchecked(pl, g, data_ptr) ==
    IF g.available_indices = {}
    THEN [res |-> "NoAvailableIndices", pp |-> NoPP, pl |-> pl, g |-> g]
    ELSE LET offset == trailing_zeros(g.available_indices)
         IN  [res |-> IF data_ptr = NULL THEN "NullPointer" ELSE "Ok",
              pp  |-> IF data_ptr = NULL THEN NoPP ELSE [ptr |-> data_ptr, index |-> offset],
              pl  |-> [pl EXCEPT ![g.starting_idx + offset] = data_ptr],
              g   |-> [g EXCEPT !.available_indices = @ \ {offset}]]

\* protect taking the highest free slot (leading instead of trailing zeros)
protect_highest(pl, g, data_ptr) ==
    IF data_ptr = NULL
    THEN [res |-> "NullPointer", pp |-> NoPP, pl |-> pl, g |-> g]
    ELSE IF g.available_indices = {}
    THEN [res |-> "NoAvailableIndices", pp |-> NoPP, pl |-> pl, g |-> g]
    ELSE LET offset == CHOOSE x \in g.available_indices :
                           \A y \in g.available_indices : y <= x
         IN  [res |-> "Ok",
              pp  |-> [ptr |-> data_ptr, index |-> offset],
              pl  |-> [pl EXCEPT ![g.starting_idx + offset] = data_ptr],
              g   |-> [g EXCEPT !.available_indices = @ \ {offset}]]

\* HazardPointerGuard::protect on guard g: the result, the handle, p_list and g after it
protect(pl, g, data_ptr) ==
    IF data_ptr = NULL
    THEN [res |-> "NullPointer", pp |-> NoPP, pl |-> pl, g |-> g]
    ELSE IF g.available_indices = {}
    THEN [res |-> "NoAvailableIndices", pp |-> NoPP, pl |-> pl, g |-> g]
    ELSE LET offset == trailing_zeros(g.available_indices)
         IN  [res |-> "Ok",
              pp  |-> [ptr |-> data_ptr, index |-> offset],
              pl  |-> [pl EXCEPT ![g.starting_idx + offset] = data_ptr],
              g   |-> [g EXCEPT !.available_indices = @ \ {offset}]]

\* unprotect that clears the slot and leaves the bit cleared
unprotect_keeps_bit(pl, g, pp) ==
    [pl |-> [pl EXCEPT ![g.starting_idx + pp.index] = NULL], g |-> g]

\* HazardPointerGuard::unprotect, also run by dropping a ProtectedPointer
unprotect(pl, g, pp) ==
    [pl |-> [pl EXCEPT ![g.starting_idx + pp.index] = NULL],
     g  |-> [g EXCEPT !.available_indices = @ \cup {pp.index}]]

\* retire_node: into_raw drops the handle (unprotect), retire_raw_pointer pushes to d_list
retire_node(pl, g, pp) ==
    LET u == unprotect(pl, g, pp)
    IN  [pl |-> u.pl, g |-> [u.g EXCEPT !.d_list = Append(@, pp.ptr)]]

\* Vec::dedup: removes consecutive repeated elements
RECURSIVE dedup(_)
dedup(s) ==
    IF Len(s) <= 1 THEN s
    ELSE LET r == dedup(Tail(s))
         IN  IF Head(s) = Head(r) THEN r ELSE <<Head(s)>> \o r

\* a sort that leaves the slice as it is
sort_none(s) == s

\* slice::sort (insertion into a sorted sequence)
RECURSIVE sort(_)
sort(s) ==
    IF Len(s) <= 1 THEN s
    ELSE LET r == sort(Tail(s))
             k == Cardinality({i \in 1..Len(r) : r[i] < Head(s)})
         IN  SubSeq(r, 1, k) \o <<Head(s)>> \o SubSeq(r, k + 1, Len(r))

\* slice::binary_search(x).is_ok() on the range lo..hi of s
RECURSIVE binary_search(_, _, _, _)
binary_search(s, x, lo, hi) ==
    IF lo > hi THEN FALSE
    ELSE LET mid == (lo + hi) \div 2
         IN  IF s[mid] = x THEN TRUE
             ELSE IF s[mid] < x THEN binary_search(s, x, mid + 1, hi)
             ELSE binary_search(s, x, lo, mid - 1)

\* scan with the filter's arms swapped
scan_keep_swapped(snapshot, d_list) ==
    LET sorted == sort(dedup(snapshot))
    IN  SelectSeq(d_list, LAMBDA item : ~binary_search(sorted, item, 1, Len(sorted)))

\* scan, after the snapshot loads: the retired pointers to keep
scan_keep(snapshot, d_list) ==
    LET sorted == sort(dedup(snapshot))
    IN  SelectSeq(d_list, LAMBDA item : binary_search(sorted, item, 1, Len(sorted)))

Range(s) == {s[i] : i \in 1..Len(s)}

\* -------------------------------------------------------------- the threads

\* the operations a client calls.  With the program <<"any">> a thread calls any
\* of them, at most MaxPut times each of those that put something in, MaxTake
\* times each of those that take something out, MaxDrop guard drops, MaxRead
\* reads and MaxUpdate updates of an Rcu.
Budget ==
    [enq |-> MaxPut, push |-> MaxPut, protect |-> MaxPut,
     deq |-> MaxTake, pop |-> MaxTake, retire |-> MaxTake, drop |-> MaxDrop,
     read |-> MaxRead, update |-> MaxUpdate, try_update |-> MaxUpdate]

\* Backoff::with_params(initial, threshold_exponent), for arguments that pass its
\* assertions
with_params(initial, threshold_exponent) ==
    [initial |-> initial, threshold |-> 2 ^ threshold_exponent, current |-> initial]

\* a thread's locals between operations.  prog is the client program: <<"any">>,
\* or the operations still to call, in order; cnt counts the calls made.
Locals ==
    [prog |-> <<"any">>, cnt |-> [o \in DOMAIN Budget |-> 0], op |-> "none", value |-> 0,
     new_node |-> NULL, tail_ptr |-> NULL, tail_next |-> NULL,
     head_ptr |-> NULL, head_next |-> NULL,
     protected_tail |-> NoPP, protected_head |-> NoPP, protected_head_next |-> NoPP,
     head_prev |-> NULL, protected_head_prev |-> NoPP, current |-> NoPP, current_next |-> NoPP,
     loop_counter |-> 0, slot_id |-> 0, backoff |-> with_params(1, 7),
     handles |-> {}, ptr_and_epoch |-> [ptr |-> NULL, epoch |-> 0], guards |-> <<>>,
     registry |-> {}, scan_idx |-> 0, p_list_snapshot |-> <<>>, ret |-> "idle"]

\* the locals after an operation returns
Return(l) ==
    [Locals EXCEPT !.prog = l.prog, !.cnt = l.cnt, !.handles = l.handles, !.guards = l.guards]

\* the client thread t calls operation o next
Invokes(t, o) ==
    /\ pc[t] = "idle"
    /\ \/ Head(loc[t].prog) = o
       \/ Head(loc[t].prog) = "any" /\ loc[t].cnt[o] < Budget[o]

\* the same for an operation that takes the thread's HazardPointerGuard
Calls(t, o) == guard[t].live /\ Invokes(t, o)

\* the locals of a thread as it enters operation o
Called(l, o) ==
    [l EXCEPT !.prog = IF Head(@) = "any" THEN @ ELSE Tail(@), !.cnt[o] = @ + 1]

\* the ProtectedPointer handles a thread holds
Held(l) ==
    ({l.protected_tail, l.protected_head, l.protected_head_next, l.protected_head_prev,
      l.current, l.current_next} \cup l.handles) \ {NoPP}

\* the handles going out of scope (on `continue`, `break` or return).  Handles are
\* dropped in reverse declaration order, i.e. by descending slot, while scan loads
\* slots in ascending order, so a scan observes the drops as one store.
drop_all(pl, g, l) ==
    LET idx == {pp.index : pp \in Held(l)}
    IN  [pl |-> [i \in DOMAIN pl |->
                    IF i - g.starting_idx \in idx THEN NULL ELSE pl[i]],
         g  |-> [g EXCEPT !.available_indices = @ \cup idx],
         l  |-> [l EXCEPT !.protected_tail = NoPP, !.protected_head = NoPP,
                          !.protected_head_next = NoPP, !.protected_head_prev = NoPP,
                          !.current = NoPP, !.current_next = NoPP, !.handles = {}]]

\* the outcomes of compare_exchange_weak(expected, _) on a cell holding cur
WeakCas(cur, expected) == IF cur = expected THEN {TRUE, FALSE} ELSE {FALSE}

\* HazardPointerArray::new
InitHP ==
    /\ p_list = [i \in 0..(NSlots - 1) |-> NULL]
    /\ thread_registry = 0..(MAX_THREADS - 1)
    /\ guard = [t \in Threads |-> NoGuard]

\* register_thread giving up while a band is still free
RegisterLoadEarly(t) ==
    /\ pc[t] = "idle" /\ ~guard[t].live /\ Head(loc[t].prog) # "halt"
    /\ IF Cardinality(thread_registry) <= 1
       THEN /\ loc' = [loc EXCEPT ![t].op = "NoAvailableIndices"]
            /\ UNCHANGED pc
       ELSE /\ pc' = [pc EXCEPT ![t] = "reg_cas"]
            /\ loc' = [loc EXCEPT ![t].registry = thread_registry, ![t].op = "none"]
    /\ UNCHANGED <<heap, head, tail, hpVars, hist, otherVars>>

\* register_thread: the load of thread_registry.  When no bit is set the call
\* returns Err(NoAvailableIndices), which the caller finds in op.
RegisterLoad(t) ==
    /\ pc[t] = "idle" /\ ~guard[t].live /\ Head(loc[t].prog) # "halt"
    /\ IF thread_registry = {}
       THEN /\ loc' = [loc EXCEPT ![t].op = "NoAvailableIndices"]
            /\ UNCHANGED pc
       ELSE /\ pc' = [pc EXCEPT ![t] = "reg_cas"]
            /\ loc' = [loc EXCEPT ![t].registry = thread_registry, ![t].op = "none"]
    /\ UNCHANGED <<heap, head, tail, hpVars, hist, otherVars>>

\* register_thread storing its new bitmap whatever thread_registry holds
RegisterCasBlind(t) ==
    /\ pc[t] = "reg_cas"
    /\ LET tr_first_slot == trailing_zeros(loc[t].registry)
       IN  /\ thread_registry' = loc[t].registry \ {tr_first_slot}
           /\ guard' = [guard EXCEPT ![t] =
                          [live |-> TRUE,
                           starting_idx |-> tr_first_slot * HP_PER_THREAD,
                           available_indices |-> 0..(HP_PER_THREAD - 1),
                           d_list |-> <<>>]]
    /\ pc' = [pc EXCEPT ![t] = "idle"]
    /\ loc' = [loc EXCEPT ![t].registry = {}]
    /\ UNCHANGED <<heap, head, tail, p_list, hist, otherVars>>

\* register_thread: the compare_exchange_weak that takes the lowest free band
RegisterCas(t) ==
    /\ pc[t] = "reg_cas"
    /\ \E ok \in WeakCas(thread_registry, loc[t].registry) :
         LET tr_first_slot == trailing_zeros(loc[t].registry)
         IN  /\ thread_registry' = IF ok THEN thread_registry \ {tr_first_slot}
                                   ELSE thread_registry
             /\ guard' = IF ok
                         THEN [guard EXCEPT ![t] =
                                 [live |-> TRUE,
                                  starting_idx |-> tr_first_slot * HP_PER_THREAD,
                                  available_indices |-> 0..(HP_PER_THREAD - 1),
                                  d_list |-> <<>>]]
                         ELSE guard
    /\ pc' = [pc EXCEPT ![t] = "idle"]
    /\ loc' = [loc EXCEPT ![t].registry = {}]
    /\ UNCHANGED <<heap, head, tail, p_list, hist, otherVars>>

\* Drop for HazardPointerGuard: begins with scan()
DropGuard(t) ==
    /\ Calls(t, "drop") /\ Held(loc[t]) = {}
    /\ pc' = [pc EXCEPT ![t] = "scan"]
    /\ loc' = [loc EXCEPT ![t] = [Called(@, "drop") EXCEPT !.ret = "drop_release"]]
    /\ UNCHANGED <<heap, head, tail, hpVars, hist, otherVars>>

\* the slots a thread other than t may store to: those of the bands that NThreads
\* threads can lease (register_thread takes the lowest free band), up to the
\* number of handles one operation holds at a time.  All other slots stay null
\* (SlotsQuiet) or are written by t alone.
Watched(t) ==
    {i \in 0..(NSlots - 1) :
        /\ i \div HP_PER_THREAD < NThreads
        /\ i \div HP_PER_THREAD # guard[t].starting_idx \div HP_PER_THREAD
        /\ i % HP_PER_THREAD < MaxHeld}

\* scan: the Acquire loads of p_list into the snapshot, in slot order.  Each load of
\* a slot another thread may store to is a step of its own; the loads of the
\* other slots commute with every step of the other threads and are taken with
\* it.  With an empty retire list the snapshot is compared with nothing, and all
\* loads are one step.
ScanLoad(t) ==
    /\ pc[t] = "scan"
    /\ LET i    == loc[t].scan_idx
           w    == {j \in Watched(t) : j >= i}
           upto == IF guard[t].d_list = <<>> \/ w = {} \/ w = {Min(w)}
                   THEN NSlots - 1 ELSE Min(w)
           got  == SelectSeq([k \in 1..(upto - i + 1) |-> p_list[i + k - 1]],
                             LAMBDA p : p # NULL)
       IN  /\ loc' = [loc EXCEPT ![t].scan_idx = upto + 1,
                                 ![t].p_list_snapshot = @ \o got]
           /\ pc' = [pc EXCEPT ![t] = IF upto + 1 = NSlots THEN "scan_free" ELSE "scan"]
    /\ UNCHANGED <<heap, head, tail, hpVars, hist, otherVars>>

\* scan: retired pointers absent from the snapshot are freed, the others kept
ScanFree(t) ==
    /\ pc[t] = "scan_free"
    /\ LET keep == scan_keep(loc[t].p_list_snapshot, guard[t].d_list)
       IN  /\ heap' = Free(heap, Range(guard[t].d_list) \ Range(keep))
           /\ guard' = [guard EXCEPT ![t].d_list = keep]
    /\ pc' = [pc EXCEPT ![t] = loc[t].ret]
    /\ loc' = [loc EXCEPT ![t].scan_idx = 0, ![t].p_list_snapshot = <<>>,
                          ![t].ret = "idle"]
    /\ UNCHANGED <<head, tail, p_list, thread_registry, hist, otherVars>>

\* a guard drop that forgets the fetch_or
DropReleaseKeepsBand(t) ==
    /\ pc[t] = "drop_release"
    /\ guard' = [guard EXCEPT ![t] = NoGuard]
    /\ pc' = [pc EXCEPT ![t] = "idle"]
    /\ UNCHANGED <<heap, head, tail, p_list, thread_registry, loc, hist, otherVars>>

\* Drop for HazardPointerGuard: after scan, fetch_or returns the band
DropRelease(t) ==
    /\ pc[t] = "drop_release"
    /\ thread_registry' = thread_registry \cup {guard[t].starting_idx \div HP_PER_THREAD}
    /\ guard' = [guard EXCEPT ![t] = NoGuard]
    /\ pc' = [pc EXCEPT ![t] = "idle"]
    /\ UNCHANGED <<heap, head, tail, p_list, loc, hist, otherVars>>

\* the ProtectedPointer handles of a loop iteration go out of scope
Unprotect(t) ==
    /\ pc[t] = "unprotect"
    /\ LET d == drop_all(p_list, guard[t], loc[t])
       IN  /\ p_list' = d.pl
           /\ guard' = [guard EXCEPT ![t] = d.g]
           /\ loc' = [loc EXCEPT ![t] =
                        IF loc[t].ret = "idle" THEN Return(d.l)
                        ELSE [d.l EXCEPT !.ret = "idle"]]
    /\ pc' = [pc EXCEPT ![t] = loc[t].ret]
    /\ UNCHANGED <<heap, head, tail, thread_registry, hist, otherVars>>

\* ------------------------------------------------------------------ MSQueue

\* the history: producer[v] is the thread that created value v (TrackableValue::new),
\* returned the values whose enqueue/push returned (the values derefs yielded, for Rcu), deq the values taken out, in
\* the order of the head CASes (v = -1 until the payload is moved out), log the
\* calls of the stack in the order they returned (a pop of None logs 0) and the
\* enqueues of MSQueue in the order of their successful next-CASes
InitHist == [producer |-> <<>>, returned |-> {}, deq |-> <<>>, uaf |-> {}, log |-> <<>>]

\* the entry of t's dequeue in hist.deq, filled with the value it returns
Returned(dq, t, v) ==
    LET k == CHOOSE i \in 1..Len(dq) : dq[i].t = t /\ dq[i].v = -1
    IN  [dq EXCEPT ![k].v = v]

\* MSQueue::new: head and tail reference a default-valued dummy node; the threads
\* are about to run the client programs progs
MSQueue_new(progs) ==
    /\ heap = [a \in Addr |-> IF a = 1 THEN Node(0, NULL) ELSE FreshNode]
    /\ head = 1 /\ tail = 1
    /\ InitHP
    /\ pc = [t \in Threads |-> "idle"]
    /\ loc = [t \in Threads |-> [Locals EXCEPT !.prog = progs[t]]]
    /\ hist = InitHist
    /\ elimination_array = <<>> /\ rcu = <<>> /\ THREAD_RECORD = <<>>

InitMSQ == MSQueue_new([t \in Threads |-> <<"any">>])

\* enqueue: Box::new of the node holding a new value
EnqAlloc(t) ==
    /\ Calls(t, "enq")
    /\ \E a \in Allocatable(heap) :
         LET v == Len(hist.producer) + 1
         IN  /\ heap' = [heap EXCEPT ![a] = Node(v, NULL)]
             /\ loc' = [loc EXCEPT ![t] = [Called(@, "enq") EXCEPT !.op = "enqueue",
                                            !.value = v, !.new_node = a]]
             /\ hist' = [hist EXCEPT !.producer = Append(@, t)]
    /\ pc' = [pc EXCEPT ![t] = "enq_load"]
    /\ UNCHANGED <<head, tail, hpVars, otherVars>>

\* enqueue: tail_ptr.write(self.tail.load())
EnqLoad(t) ==
    /\ pc[t] = "enq_load"
    /\ loc' = [loc EXCEPT ![t].tail_ptr = tail]
    /\ pc' = [pc EXCEPT ![t] = "enq_protect"]
    /\ UNCHANGED <<heap, head, tail, hpVars, hist, otherVars>>

\* enqueue: guard.protect(tail_ptr); tail is not read again after it
EnqProtect(t) ==
    /\ pc[t] = "enq_protect"
    /\ LET r == protect(p_list, guard[t], loc[t].tail_ptr)
       IN  /\ p_list' = r.pl
           /\ guard' = [guard EXCEPT ![t] = r.g]
           /\ loc' = [loc EXCEPT ![t].protected_tail = r.pp]
           /\ pc' = [pc EXCEPT ![t] = IF r.res = "Ok" THEN "enq_next" ELSE "enq_load"]
    /\ UNCHANGED <<heap, head, tail, thread_registry, hist, otherVars>>

\* enqueue: (*protected_tail).next.load()
EnqNext(t) ==
    /\ pc[t] = "enq_next"
    /\ \E n \in Loads(heap, loc[t].protected_tail.ptr, "next") :
         /\ loc' = [loc EXCEPT ![t].tail_next = n]
         /\ pc' = [pc EXCEPT ![t] = IF n # NULL THEN "enq_help" ELSE "enq_cas"]
    /\ hist' = Touch(hist, heap, loc[t].protected_tail.ptr, "enqueue: tail.next")
    /\ UNCHANGED <<heap, head, tail, hpVars, otherVars>>

\* enqueue: tail lags, compare_exchange_weak(tail, tail_next), then continue
EnqHelp(t) ==
    /\ pc[t] = "enq_help"
    /\ \E ok \in WeakCas(tail, loc[t].protected_tail.ptr) :
         tail' = IF ok THEN loc[t].tail_next ELSE tail
    /\ pc' = [pc EXCEPT ![t] = "unprotect"]
    /\ loc' = [loc EXCEPT ![t].ret = "enq_load"]
    /\ UNCHANGED <<heap, head, hpVars, hist, otherVars>>

\* enqueue: (*protected_tail).next.compare_exchange_weak(null, new_node)
EnqCas(t) ==
    /\ pc[t] = "enq_cas"
    /\ LET p == loc[t].protected_tail.ptr
       IN  \E cur \in Loads(heap, p, "next") : \E ok \in WeakCas(cur, NULL) :
             /\ heap' = IF ok THEN [heap EXCEPT ![p].next = loc[t].new_node] ELSE heap
             /\ loc' = [loc EXCEPT ![t].ret = IF ok THEN "enq_tail" ELSE "enq_load"]
             /\ hist' = [Touch(hist, heap, p, "enqueue: tail.next") EXCEPT !.log =
                            IF ok THEN Append(@, <<"enq", loc[t].value>>) ELSE @]
    /\ pc' = [pc EXCEPT ![t] = "unprotect"]
    /\ UNCHANGED <<head, tail, hpVars, otherVars>>

\* enqueue: the closing compare_exchange_weak(tail_ptr, new_node); returns true
EnqTail(t) ==
    /\ pc[t] = "enq_tail"
    /\ \E ok \in WeakCas(tail, loc[t].tail_ptr) :
         tail' = IF ok THEN loc[t].new_node ELSE tail
    /\ hist' = [hist EXCEPT !.returned = @ \cup {loc[t].value}]
    /\ pc' = [pc EXCEPT ![t] = "idle"]
    /\ loc' = [loc EXCEPT ![t] = Return(loc[t])]
    /\ UNCHANGED <<heap, head, hpVars, otherVars>>

\* dequeue: head_ptr.write(self.head.load())
DeqLoad(t) ==
    /\ Calls(t, "deq") \/ pc[t] = "deq_load"
    /\ loc' = [loc EXCEPT ![t] = [(IF pc[t] = "idle" THEN Called(@, "deq") ELSE @)
                                    EXCEPT !.head_ptr = head, !.op = "dequeue"]]
    /\ pc' = [pc EXCEPT ![t] = "deq_protect"]
    /\ UNCHANGED <<heap, head, tail, hpVars, hist, otherVars>>

\* dequeue: guard.protect(head_ptr); NullPointer returns None
DeqProtect(t) ==
    /\ pc[t] = "deq_protect"
    /\ LET r == protect(p_list, guard[t], loc[t].head_ptr)
       IN  /\ p_list' = r.pl
           /\ guard' = [guard EXCEPT ![t] = r.g]
           /\ loc' = [loc EXCEPT ![t] =
                        IF r.res = "NullPointer" THEN Return(@)
                        ELSE [@ EXCEPT !.protected_head = r.pp]]
           /\ pc' = [pc EXCEPT ![t] =
                        CASE r.res = "Ok" -> "deq_next"
                          [] r.res = "NoAvailableIndices" -> "deq_load"
                          [] r.res = "NullPointer" -> "idle"]
    /\ UNCHANGED <<heap, head, tail, thread_registry, hist, otherVars>>

\* dequeue: head_next.write((*protected_head).next.load()), before head is re-read
DeqNext(t) ==
    /\ pc[t] = "deq_next"
    /\ \E n \in Loads(heap, loc[t].protected_head.ptr, "next") :
         loc' = [loc EXCEPT ![t].head_next = n]
    /\ hist' = Touch(hist, heap, loc[t].protected_head.ptr, "dequeue: head.next")
    /\ pc' = [pc EXCEPT ![t] = "deq_protect_next"]
    /\ UNCHANGED <<heap, head, tail, hpVars, otherVars>>

\* dequeue: guard.protect(head_next).  The arm Err(_) precedes the arm
\* Err(NullPointer) => return None, so every error spins and continues.
DeqProtectNext(t) ==
    /\ pc[t] = "deq_protect_next"
    /\ LET r == protect(p_list, guard[t], loc[t].head_next)
       IN  /\ p_list' = r.pl
           /\ guard' = [guard EXCEPT ![t] = r.g]
           /\ loc' = [loc EXCEPT ![t].protected_head_next = r.pp,
                                 ![t].ret = IF r.res = "Ok" THEN "idle" ELSE "deq_load"]
           /\ pc' = [pc EXCEPT ![t] = IF r.res = "Ok" THEN "deq_validate" ELSE "unprotect"]
    /\ UNCHANGED <<heap, head, tail, thread_registry, hist, otherVars>>

\* dequeue: if self.head.load() != protected_head { continue }
DeqValidate(t) ==
    /\ pc[t] = "deq_validate"
    /\ IF head # loc[t].protected_head.ptr
       THEN /\ pc' = [pc EXCEPT ![t] = "unprotect"]
            /\ loc' = [loc EXCEPT ![t].ret = "deq_load"]
       ELSE /\ pc' = [pc EXCEPT ![t] = "deq_cas"]
            /\ UNCHANGED loc
    /\ UNCHANGED <<heap, head, tail, hpVars, hist, otherVars>>

\* dequeue: self.head.compare_exchange_weak(protected_head, protected_head_next)
DeqCas(t) ==
    /\ pc[t] = "deq_cas"
    /\ \E ok \in WeakCas(head, loc[t].protected_head.ptr) :
         IF ok
         THEN /\ head' = loc[t].protected_head_next.ptr
              /\ hist' = [hist EXCEPT !.deq = Append(@, [t |-> t, v |-> -1])]
              /\ pc' = [pc EXCEPT ![t] = "deq_tail"]
              /\ UNCHANGED loc
         ELSE /\ pc' = [pc EXCEPT ![t] = "unprotect"]
              /\ loc' = [loc EXCEPT ![t].ret = "deq_load"]
              /\ UNCHANGED <<head, hist>>
    /\ UNCHANGED <<heap, tail, hpVars, otherVars>>

\* dequeue: the inner loop's self.tail.load(); tail is advanced only if it is the old head
DeqTail(t) ==
    /\ pc[t] = "deq_tail"
    /\ pc' = [pc EXCEPT ![t] = IF tail = loc[t].protected_head.ptr
                               THEN "deq_tail_cas" ELSE "deq_retire"]
    /\ UNCHANGED <<heap, head, tail, hpVars, loc, hist, otherVars>>

\* dequeue: self.tail.compare_exchange_weak(protected_head, protected_head_next)
DeqTailCas(t) ==
    /\ pc[t] = "deq_tail_cas"
    /\ \E ok \in WeakCas(tail, loc[t].protected_head.ptr) :
         /\ tail' = IF ok THEN loc[t].protected_head_next.ptr ELSE tail
         /\ pc' = [pc EXCEPT ![t] = IF ok THEN "deq_retire" ELSE "deq_tail"]
    /\ UNCHANGED <<heap, head, hpVars, loc, hist, otherVars>>

\* dequeue: guard.retire_node(protected_head), which scans past SCAN_THRESHOLD
DeqRetire(t) ==
    /\ pc[t] = "deq_retire"
    /\ LET r == retire_node(p_list, guard[t], loc[t].protected_head)
       IN  /\ p_list' = r.pl
           /\ guard' = [guard EXCEPT ![t] = r.g]
           /\ loc' = [loc EXCEPT ![t].protected_head = NoPP, ![t].ret = "deq_take"]
           /\ pc' = [pc EXCEPT ![t] = IF Len(r.g.d_list) > SCAN_THRESHOLD
                                      THEN "scan" ELSE "deq_take"]
    /\ UNCHANGED <<heap, head, tail, thread_registry, hist, otherVars>>

\* dequeue: Some(std::mem::take(&mut (*protected_head_next).data))
DeqTake(t) ==
    /\ pc[t] = "deq_take"
    /\ LET p == loc[t].protected_head_next.ptr
       IN  /\ \E d \in Loads(heap, p, "data") :
                hist' = [Touch(hist, heap, p, "dequeue: head.next.data")
                           EXCEPT !.deq = Returned(@, t, d)]
           /\ heap' = [heap EXCEPT ![p].data = 0]
    /\ pc' = [pc EXCEPT ![t] = "unprotect"]
    /\ loc' = [loc EXCEPT ![t].ret = "idle"]
    /\ UNCHANGED <<head, tail, hpVars, otherVars>>

StepMSQ(t) ==
    \/ RegisterLoad(t) \/ RegisterCas(t) \/ DropGuard(t)
    \/ ScanLoad(t) \/ ScanFree(t) \/ DropRelease(t) \/ Unprotect(t)
    \/ EnqAlloc(t) \/ EnqLoad(t) \/ EnqProtect(t) \/ EnqNext(t)
    \/ EnqHelp(t) \/ EnqCas(t) \/ EnqTail(t)
    \/ DeqLoad(t) \/ DeqProtect(t) \/ DeqNext(t) \/ DeqProtectNext(t)
    \/ DeqValidate(t) \/ DeqCas(t) \/ DeqTail(t) \/ DeqTailCas(t)
    \/ DeqRetire(t) \/ DeqTake(t)

NextMSQ == \E t \in Threads : StepMSQ(t)

\* MSQueue under any client within the bounds
SpecMSQ == InitMSQ /\ [][NextMSQ]_vars

\* the same, every thread that can take a step eventually taking one (OS threads)
FairMSQ == SpecMSQ /\ \A t \in Threads : WF_vars(StepMSQ(t))

\* two clients in the shape of tests::test_concurrent (enqueue, then dequeue), the
\* second dropping its guard and registering again in between
FifoProgs ==
    [t \in Threads |->
        CASE t = 1 -> <<"enq", "enq", "deq", "deq", "halt">>
          [] t = 2 -> <<"enq", "deq", "drop", "enq", "deq", "halt">>
          [] OTHER -> <<"halt">>]

SpecMSQFifo == MSQueue_new(FifoProgs) /\ [][NextMSQ]_vars

\* ---- the claims about MSQueue

\* the payloads of the nodes after p along next, at most n of them
RECURSIVE Chain(_, _, _)
Chain(h, p, n) ==
    IF n = 0 \/ h[p].next = NULL THEN <<>>
    ELSE <<h[h[p].next].data>> \o Chain(h, h[p].next, n - 1)

Quiescent == \A t \in Threads : pc[t] = "idle"

\* the values dequeues have returned so far
Dequeued == {hist.deq[i].v : i \in {j \in 1..Len(hist.deq) : hist.deq[j].v # -1}}

\* C1: every node enqueue or dequeue dereferences (t.next read and CAS, h.next
\* read, payload of h.next) is not freed at the moment of the access
C1_NoUseAfterFree == hist.uaf = {}

\* C3: a dequeue running on an empty queue (head.next null, no enqueue in
\* progress) eventually returns, unless an enqueue starts meanwhile
C3_EmptyDequeueReturns ==
    \A t \in Threads :
        (/\ loc[t].op = "dequeue"
         /\ heap[head].next = NULL
         /\ \A u \in Threads : loc[u].op # "enqueue")
        ~> (pc[t] = "idle" \/ \E u \in Threads : loc[u].op = "enqueue")

\* C5: no value is returned by two dequeues, every returned value was enqueued,
\* and when no operation is running every value whose enqueue returned has been
\* dequeued or is still in the queue (none is lost)
C5_Conservation ==
    /\ \A i, j \in 1..Len(hist.deq) :
         i # j /\ hist.deq[i].v # -1 => hist.deq[i].v # hist.deq[j].v
    /\ Dequeued \subseteq 1..Len(hist.producer)
    /\ Quiescent =>
         hist.returned = Dequeued \cup Range(Chain(heap, head, MaxNodes))

\* C6: two values of one producer leave the queue in the order they were enqueued
\* (hist.deq is in head-CAS order; a producer's values increase)
C6_ProducerFifo ==
    \A i, j \in 1..Len(hist.deq) :
        LET a == hist.deq[i].v
            b == hist.deq[j].v
        IN  (i < j /\ a >= 1 /\ b >= 1 /\ hist.producer[a] = hist.producer[b]) => a < b

\* C11: the history is that of a sequential FIFO queue whose enqueues take effect
\* at their next-CAS (hist.log) and whose dequeues take effect at their head CAS
\* (hist.deq): the i-th dequeue takes effect after the i-th enqueue and returns
\* its value
C11_Linearizable ==
    /\ Len(hist.deq) <= Len(hist.log)
    /\ \A i \in 1..Len(hist.deq) :
         hist.deq[i].v # -1 => i <= Len(hist.log) /\ hist.deq[i].v = hist.log[i][2]

\* the MSQueue goes out of scope once every client is done and every guard is
\* dropped.  MSQueue has no Drop impl: its two AtomicPtr fields are dropped and
\* no node is freed.
MSQueueDrop ==
    /\ head # NULL
    /\ \A t \in Threads : pc[t] = "idle" /\ loc[t].prog = <<"halt">> /\ ~guard[t].live
    /\ head' = NULL /\ tail' = NULL
    /\ UNCHANGED <<heap, hpVars, pc, loc, hist, otherVars>>

\* two clients that enqueue, dequeue and drop their guards
LeakProgs == [t \in Threads |-> <<"enq", "deq", "drop", "halt">>]

NextMSQDrop == NextMSQ \/ MSQueueDrop

SpecMSQDrop == MSQueue_new(LeakProgs) /\ [][NextMSQDrop]_vars

\* C12: once every operation has returned, every guard is dropped and the queue
\* is dropped, no allocated node is still live
C12_NoLeaks ==
    (head = NULL /\ \A t \in Threads : pc[t] = "idle" /\ ~guard[t].live)
        => \A a \in Addr : heap[a].st # "live"

\* ------------------------------------------- the hazard-pointer API by itself

\* a client of HazardPointerArray that owns MaxNodes heap objects
InitHPClient ==
    /\ heap = [a \in Addr |-> Node(a, NULL)]
    /\ head = NULL /\ tail = NULL
    /\ InitHP
    /\ pc = [t \in Threads |-> "idle"]
    /\ loc = [t \in Threads |-> Locals]
    /\ hist = InitHist
    /\ elimination_array = <<>> /\ rcu = <<>> /\ THREAD_RECORD = <<>>

\* the pointers on some thread's retire list
Retired == UNION {Range(guard[t].d_list) : t \in Threads}

\* guard.protect(p) of null or of an object that is valid at the call; the
\* caller finds the result (Ok, NullPointer, NoAvailableIndices) in op.  A client
\* that calls anything holds at most MaxHeld handles.
HpProtect(t) ==
    /\ Calls(t, "protect")
    /\ Head(loc[t].prog) = "any" => Cardinality(loc[t].handles) < MaxHeld
    /\ \E p \in {NULL} \cup {a \in Addr : heap[a].st = "live"} :
         LET r == protect(p_list, guard[t], p)
         IN  /\ p_list' = r.pl
             /\ guard' = [guard EXCEPT ![t] = r.g]
             /\ loc' = [loc EXCEPT ![t] =
                          [Called(@, "protect") EXCEPT !.handles = @ \cup ({r.pp} \ {NoPP}),
                                                       !.op = r.res]]
    /\ UNCHANGED <<heap, head, tail, thread_registry, pc, hist, otherVars>>

\* a ProtectedPointer is dropped
HpUnprotect(t) ==
    /\ pc[t] = "idle"
    /\ \E pp \in loc[t].handles :
         LET u == unprotect(p_list, guard[t], pp)
         IN  /\ p_list' = u.pl
             /\ guard' = [guard EXCEPT ![t] = u.g]
             /\ loc' = [loc EXCEPT ![t].handles = @ \ {pp}]
    /\ UNCHANGED <<heap, head, tail, thread_registry, pc, hist, otherVars>>

\* guard.retire_node(handle) of an object nobody has retired
HpRetireNode(t) ==
    /\ Calls(t, "retire")
    /\ \E pp \in loc[t].handles :
         /\ pp.ptr \notin Retired /\ heap[pp.ptr].st = "live"
         /\ LET r == retire_node(p_list, guard[t], pp)
            IN  /\ p_list' = r.pl
                /\ guard' = [guard EXCEPT ![t] = r.g]
                /\ loc' = [loc EXCEPT ![t] = [Called(@, "retire") EXCEPT !.handles = @ \ {pp}]]
                /\ pc' = [pc EXCEPT ![t] = IF Len(r.g.d_list) > SCAN_THRESHOLD
                                           THEN "scan" ELSE "idle"]
    /\ UNCHANGED <<heap, head, tail, thread_registry, hist, otherVars>>

\* guard.retire_raw_pointer(p) of an object nobody has retired
HpRetireRaw(t) ==
    /\ Calls(t, "retire")
    /\ \E p \in {a \in Addr : heap[a].st = "live"} \ Retired :
         /\ guard' = [guard EXCEPT ![t].d_list = Append(@, p)]
         /\ pc' = [pc EXCEPT ![t] = IF Len(guard[t].d_list) + 1 > SCAN_THRESHOLD
                                    THEN "scan" ELSE "idle"]
    /\ loc' = [loc EXCEPT ![t] = Called(@, "retire")]
    /\ UNCHANGED <<heap, head, tail, p_list, thread_registry, hist, otherVars>>

NextHP ==
    \E t \in Threads :
        \/ RegisterLoad(t) \/ RegisterCas(t) \/ DropGuard(t)
        \/ ScanLoad(t) \/ ScanFree(t) \/ DropRelease(t)
        \/ HpProtect(t) \/ HpUnprotect(t) \/ HpRetireNode(t) \/ HpRetireRaw(t)

SpecHP == InitHPClient /\ [][NextHP]_vars

\* the slots outside the watched ones hold null unless their own thread wrote them
SlotsQuiet ==
    \A i \in 0..(NSlots - 1) :
        (i \div HP_PER_THREAD >= NThreads \/ i % HP_PER_THREAD >= MaxHeld) => p_list[i] = NULL

\* C4 as stated: no step frees a pointer that a slot holds before and after it
C4_SlotNeverFreed ==
    [][\A i \in 0..(NSlots - 1) :
          (p_list[i] # NULL /\ p_list'[i] = p_list[i] /\ heap[p_list[i]].st = "live")
              => heap'[p_list[i]].st = "live"]_vars

\* C4: a scan frees no pointer that it found in a slot when it loaded that slot
\* (a pointer stored into a slot the scan has already loaded is not covered)
C4_ScanKeepsObserved ==
    [][\A t \in Threads :
          (pc[t] = "scan_free" /\ pc'[t] # "scan_free")
              => \A p \in Range(loc[t].p_list_snapshot) : heap'[p].st = heap[p].st]_vars

\* a scan has just kept a retired pointer because another thread's slot held it
C4_Witness ==
    \E t \in Threads :
        /\ pc[t] = "drop_release" /\ guard[t].d_list # <<>>
        /\ \A p \in Range(guard[t].d_list) :
             heap[p].st = "live" /\ \E i \in 0..(NSlots - 1) : p_list[i] = p

\* ---- one guard's band filled up

\* thread 1 calls protect once more than its band has slots, and drops handles
\* in any order meanwhile
BandProgs ==
    [t \in Threads |->
        IF t = 1 THEN [i \in 1..(HP_PER_THREAD + 1) |-> "protect"] \o <<"halt">>
        ELSE <<"halt">>]

\* a client of HazardPointerArray that owns one heap object
InitHPBand ==
    /\ heap = [a \in Addr |-> IF a = 1 THEN Node(a, NULL) ELSE FreshNode]
    /\ head = NULL /\ tail = NULL
    /\ InitHP
    /\ pc = [t \in Threads |-> "idle"]
    /\ loc = [t \in Threads |-> [Locals EXCEPT !.prog = BandProgs[t]]]
    /\ hist = InitHist
    /\ elimination_array = <<>> /\ rcu = <<>> /\ THREAD_RECORD = <<>>

NextHPBand ==
    \E t \in Threads :
        \/ RegisterLoad(t) \/ RegisterCas(t) \/ HpProtect(t) \/ HpUnprotect(t)

SpecHPBand == InitHPBand /\ [][NextHPBand]_vars

\* C15: protect(null) returns NullPointer and no handle, and a protect call that
\* returns NullPointer leaves the guard's bitmap, the caller's handles and every
\* slot of p_list as they were
C15_ProtectNull ==
    [][\A t \in Threads :
          /\ guard[t].live =>
                LET r == protect(p_list, guard[t], NULL)
                IN  r.res = "NullPointer" /\ r.pp = NoPP
          /\ (loc'[t].cnt["protect"] # loc[t].cnt["protect"] /\ loc'[t].op = "NullPointer")
                => /\ p_list' = p_list
                   /\ guard'[t] = guard[t]
                   /\ loc'[t].handles = loc[t].handles]_vars

\* protect(null) has returned NullPointer on a band with used and free slots
C15_Witness ==
    \E t \in Threads :
        /\ loc[t].op = "NullPointer"
        /\ guard[t].available_indices \notin {{}, 0..(HP_PER_THREAD - 1)}
        /\ Cardinality(loc[t].handles) = HP_PER_THREAD - Cardinality(guard[t].available_indices)

\* C16: a protect call that returns Ok has stored its non-null pointer into the
\* lowest free slot of the guard's own band and marked that slot used, changing
\* nothing else; a call with a non-null pointer returns NoAvailableIndices when
\* the band has no free slot, and then changes neither the bitmap nor any slot
C16_ProtectSlot ==
    [][\A t \in Threads :
          LET called == loc'[t].cnt["protect"] # loc[t].cnt["protect"]
              free   == guard[t].available_indices
              lowest == Min(free)
          IN  /\ (called /\ loc'[t].op = "Ok") =>
                    /\ free # {}
                    /\ \E p \in Addr :
                         /\ loc'[t].handles = loc[t].handles \cup {[ptr |-> p, index |-> lowest]}
                         /\ p_list' = [p_list EXCEPT ![guard[t].starting_idx + lowest] = p]
                    /\ guard'[t] = [guard[t] EXCEPT !.available_indices = free \ {lowest}]
              /\ (called /\ loc'[t].op = "NoAvailableIndices") =>
                    /\ free = {}
                    /\ p_list' = p_list /\ guard'[t] = guard[t]
                    /\ loc'[t].handles = loc[t].handles
              /\ (called /\ free = {}) => loc'[t].op # "Ok"
              /\ guard[t].live => \A p \in Addr :
                    protect(p_list, guard[t], p).res =
                        IF free = {} THEN "NoAvailableIndices" ELSE "Ok"]_vars

\* the band is full and a further protect has returned NoAvailableIndices
C16_Witness ==
    \E t \in Threads :
        /\ loc[t].op = "NoAvailableIndices"
        /\ guard[t].available_indices = {}
        /\ Cardinality(loc[t].handles) = HP_PER_THREAD

\* C21: bit i of a live guard's available_indices is set exactly when slot i of
\* its band holds null; dropping a handle nulls its slot and sets its bit and
\* changes nothing else; and protect followed by the drop of the handle gives
\* back the p_list and the guard it started from
C21_SlotBookkeeping ==
    [][\A t \in Threads : guard[t].live =>
          /\ \A i \in 0..(HP_PER_THREAD - 1) :
                i \in guard[t].available_indices <=> p_list[guard[t].starting_idx + i] = NULL
          /\ \A pp \in loc[t].handles \ loc'[t].handles :
                /\ p_list' = [p_list EXCEPT ![guard[t].starting_idx + pp.index] = NULL]
                /\ guard'[t] = [guard[t] EXCEPT !.available_indices = @ \cup {pp.index}]
          /\ \A p \in Addr :
                LET r == protect(p_list, guard[t], p)
                    u == unprotect(r.pl, r.g, r.pp)
                IN  r.res = "Ok" => u.pl = p_list /\ u.g = guard[t]]_vars

\* handles have been dropped out of order: a free slot lies below a used one
C21_Witness ==
    \E t \in Threads : \E i, j \in 0..(HP_PER_THREAD - 1) :
        /\ guard[t].live /\ i < j
        /\ i \in guard[t].available_indices /\ p_list[guard[t].starting_idx + i] = NULL
        /\ j \notin guard[t].available_indices /\ p_list[guard[t].starting_idx + j] # NULL

\* C22: the step that completes a guard drop leaves every slot of the guard's
\* band null and sets the band's bit, which was clear, in thread_registry; and
\* every band whose bit is set has only null slots, so the next register_thread
\* starts from an empty band
C22_GuardRelease ==
    [][/\ \A t \in Threads : guard[t].live /\ ~guard'[t].live =>
             LET b == guard[t].starting_idx \div HP_PER_THREAD
             IN  /\ \A i \in 0..(HP_PER_THREAD - 1) : p_list'[b * HP_PER_THREAD + i] = NULL
                 /\ b \notin thread_registry
                 /\ thread_registry' = thread_registry \cup {b}
       /\ \A b \in thread_registry : \A i \in 0..(HP_PER_THREAD - 1) :
             p_list[b * HP_PER_THREAD + i] = NULL]_vars

\* a thread that protected pointers and dropped its guard holds band 0 again
\* while no other guard is alive: band 0 was returned by a drop and leased anew
C22_Witness ==
    \E t \in Threads :
        /\ loc[t].cnt["drop"] >= 1 /\ loc[t].cnt["protect"] >= 1
        /\ guard[t].live /\ guard[t].starting_idx = 0
        /\ \A u \in Threads \ {t} : ~guard[u].live

\* ---- a retire list that grows past SCAN_THRESHOLD

\* thread 1 retires MaxRetire objects and drops its guard; thread 2 protects
\* two of them at any time and drops the handles at any time
RetireProgs ==
    [t \in Threads |->
        IF t = 1 THEN [i \in 1..MaxRetire |-> "retire"] \o <<"drop", "halt">>
        ELSE IF t = 2 THEN <<"protect", "protect", "halt">>
        ELSE <<"halt">>]

\* a client of HazardPointerArray that owns MaxRetire heap objects
InitHPRetire ==
    /\ heap = [a \in 1..MaxRetire |-> Node(a, NULL)]
    /\ head = NULL /\ tail = NULL
    /\ InitHP
    /\ pc = [t \in Threads |-> "idle"]
    /\ loc = [t \in Threads |-> [Locals EXCEPT !.prog = RetireProgs[t]]]
    /\ hist = InitHist
    /\ elimination_array = <<>> /\ rcu = <<>> /\ THREAD_RECORD = <<>>

\* retire_raw_pointer with `>=` for `>`
HpRetireNextEager(t) ==
    /\ Calls(t, "retire")
    /\ LET rest == {a \in DOMAIN heap : heap[a].st = "live"} \ Retired
       IN  /\ rest # {}
           /\ guard' = [guard EXCEPT ![t].d_list = Append(@, Min(rest))]
           /\ pc' = [pc EXCEPT ![t] = IF Len(guard[t].d_list) + 1 >= SCAN_THRESHOLD
                                      THEN "scan" ELSE "idle"]
    /\ loc' = [loc EXCEPT ![t] = Called(@, "retire")]
    /\ UNCHANGED <<heap, head, tail, p_list, thread_registry, hist, otherVars>>

\* guard.retire_raw_pointer(p) by a client that retires its objects in address
\* order
HpRetireNext(t) ==
    /\ Calls(t, "retire")
    /\ LET rest == {a \in DOMAIN heap : heap[a].st = "live"} \ Retired
       IN  /\ rest # {}
           /\ guard' = [guard EXCEPT ![t].d_list = Append(@, Min(rest))]
           /\ pc' = [pc EXCEPT ![t] = IF Len(guard[t].d_list) + 1 > SCAN_THRESHOLD
                                      THEN "scan" ELSE "idle"]
    /\ loc' = [loc EXCEPT ![t] = Called(@, "retire")]
    /\ UNCHANGED <<heap, head, tail, p_list, thread_registry, hist, otherVars>>

NextHPRetire ==
    \E t \in Threads :
        \/ RegisterLoad(t) \/ RegisterCas(t) \/ DropGuard(t)
        \/ ScanLoad(t) \/ ScanFree(t) \/ DropRelease(t)
        \/ HpProtect(t) \/ HpUnprotect(t) \/ HpRetireNext(t)

SpecHPRetire == InitHPRetire /\ [][NextHPRetire]_vars

\* C23: the step of scan that filters the retire list frees and removes every
\* retired pointer that is absent from the snapshot this scan took, keeps every
\* retired pointer that is in the snapshot, in the order of the list, and
\* changes no object that was not on the retire list
C23_ScanPartition ==
    [][\A t \in Threads : pc[t] = "scan_free" /\ pc'[t] # "scan_free" =>
          LET snap == Range(loc[t].p_list_snapshot)
              old  == guard[t].d_list
          IN  /\ \A p \in Range(old) \ snap :
                    heap[p].st = "live" /\ heap'[p].st = "freed"
                    /\ p \notin Range(guard'[t].d_list)
              /\ \A p \in Range(old) \cap snap : heap'[p] = heap[p]
              /\ guard'[t].d_list = SelectSeq(old, LAMBDA p : p \in snap)
              /\ \A a \in DOMAIN heap \ Range(old) : heap'[a] = heap[a]]_vars

\* a scan run by the 33rd retire has freed objects and kept one: after the last
\* retire the list holds the kept pointer and the new one
C23_Witness ==
    /\ loc[1].cnt["retire"] = MaxRetire /\ pc[1] = "idle"
    /\ Len(guard[1].d_list) >= 2
    /\ \E a \in DOMAIN heap : heap[a].st = "freed"

\* C24: a retire appends its pointer to the guard's retire list and goes on to
\* scan exactly when the list then holds more than 32 pointers
C24_RetireThreshold ==
    [][\A t \in Threads : loc'[t].cnt["retire"] = loc[t].cnt["retire"] + 1 =>
          /\ \E p \in DOMAIN heap : guard'[t].d_list = Append(guard[t].d_list, p)
          /\ heap' = heap
          /\ pc'[t] = "scan" <=> Len(guard'[t].d_list) > 32
          /\ pc'[t] # "scan" => pc'[t] = "idle"]_vars

\* the 33rd retire has started a scan
C24_Witness ==
    \E t \in Threads :
        /\ pc[t] = "scan" /\ loc[t].ret = "idle" /\ loc[t].scan_idx = 0
        /\ Len(guard[t].d_list) = SCAN_THRESHOLD + 1

\* ---- registration by more threads than there are bands

\* the threads of tests::test_concurrent, scaled down to one more than MAX_THREADS
Registrants == 1..NRegistrants

\* one thread registers, drops the guard and stops; one registers, may drop the
\* guard once and register again; the others register and keep the guard, as the
\* threads of the test do ("keep" is never consumed)
RegProgs ==
    [t \in Registrants |->
        CASE t = 1 -> <<"drop", "halt">>
          [] t = 2 -> <<"any">>
          [] OTHER -> <<"keep">>]

InitReg ==
    /\ heap = [a \in Addr |-> FreshNode]
    /\ head = NULL /\ tail = NULL
    /\ p_list = [i \in 0..(NSlots - 1) |-> NULL]
    /\ thread_registry = 0..(MAX_THREADS - 1)
    /\ guard = [t \in Registrants |-> NoGuard]
    /\ pc = [t \in Registrants |-> "idle"]
    /\ loc = [t \in Registrants |-> [Locals EXCEPT !.prog = RegProgs[t]]]
    /\ hist = InitHist
    /\ elimination_array = <<>> /\ rcu = <<>> /\ THREAD_RECORD = <<>>

NextReg ==
    \E t \in Registrants :
        \/ RegisterLoad(t) \/ RegisterCas(t) \/ DropGuard(t)
        \/ ScanLoad(t) \/ ScanFree(t) \/ DropRelease(t)

SpecReg == InitReg /\ [][NextReg]_vars

\* the bands leased to live guards
Leased == {guard[t].starting_idx \div HP_PER_THREAD : t \in {u \in Registrants : guard[u].live}}

\* C13: register_thread returns the error only when all MAX_THREADS bands are
\* leased to live guards, and then leaves the bitmap as it was; a call that loads
\* the bitmap while fewer bands are leased goes on to take one
C13_RegisterError ==
    [][\A t \in Registrants :
          LET calls == pc[t] = "idle" /\ ~guard[t].live /\ loc'[t] # loc[t]
              err   == calls /\ pc'[t] = "idle" /\ loc'[t].op = "NoAvailableIndices"
          IN  /\ err => /\ Cardinality(Leased) = MAX_THREADS
                        /\ Cardinality({u \in Registrants : guard[u].live}) = MAX_THREADS
                        /\ thread_registry' = thread_registry
              /\ (calls /\ Cardinality(Leased) < MAX_THREADS) => pc'[t] = "reg_cas"]_vars

\* a fifth registration has failed while four guards are alive
C13_Witness ==
    \E t \in Registrants :
        /\ loc[t].op = "NoAvailableIndices" /\ pc[t] = "idle" /\ ~guard[t].live
        /\ Cardinality({u \in Registrants : guard[u].live}) = MAX_THREADS

\* C14: with more threads than MAX_THREADS running at once and holding their
\* guards, every register_thread call returns a guard (the test unwraps it)
C14_AllRegister == \A t \in Registrants : loc[t].op # "NoAvailableIndices"

\* C20: no two live guards own the same band, and no band of a live guard is
\* marked free in thread_registry
C20_BandExclusive ==
    /\ \A t, u \in Registrants :
         (t # u /\ guard[t].live /\ guard[u].live)
             => guard[t].starting_idx # guard[u].starting_idx
    /\ Leased \cap thread_registry = {}

\* every band is leased, one of them to a thread that dropped a guard, registered
\* again and took the band another thread had returned
C20_Witness ==
    /\ Cardinality({u \in Registrants : guard[u].live}) = MAX_THREADS
    /\ \E t \in Registrants :
         /\ guard[t].live /\ loc[t].cnt["drop"] = 1
         /\ \E u \in Registrants \ {t} :
              pc[u] = "idle" /\ ~guard[u].live /\ loc[u].prog = <<"halt">>

\* ---------------------------------------------------------------------- Rcu

\* Rcu::new(data): the first version at address 1, epoch 0, no previous pointer.
\* Thread 1 is the writer; every thread reads.
InitRCU ==
    /\ heap = [a \in Addr |-> IF a = 1 THEN Node(0, NULL) ELSE FreshNode]
    /\ rcu = [ptr_and_epoch |-> [ptr |-> 1, epoch |-> 0], previous_ptr |-> NULL,
              readers |-> [e \in 0..1 |-> 0]]
    /\ THREAD_RECORD = [t \in Threads |-> [present |-> FALSE, nested |-> [e \in 0..1 |-> 0]]]
    /\ head = NULL /\ tail = NULL
    /\ InitHP
    /\ pc = [t \in Threads |-> "idle"]
    /\ loc = [t \in Threads |-> Locals]
    /\ hist = InitHist
    /\ elimination_array = <<>>

\* read: the Relaxed load of ptr_and_epoch
RcuReadLoad(t) ==
    /\ Invokes(t, "read")
    /\ loc' = [loc EXCEPT ![t] = [Called(@, "read") EXCEPT !.op = "read",
                                   !.ptr_and_epoch = rcu.ptr_and_epoch]]
    /\ pc' = [pc EXCEPT ![t] = "read_bump"]
    /\ UNCHANGED <<heap, head, tail, hpVars, hist, elimination_array, rcu, THREAD_RECORD>>

\* read with a fetch_add for every guard, nested or not
RcuReadBumpAlways(t) ==
    /\ pc[t] = "read_bump"
    /\ LET epoch == loc[t].ptr_and_epoch.epoch
           tr    == THREAD_RECORD[t]
       IN  /\ rcu' = [rcu EXCEPT !.readers[epoch] = @ + 1]
           /\ THREAD_RECORD' = [THREAD_RECORD EXCEPT ![t] =
                  [present |-> TRUE, nested |-> [tr.nested EXCEPT ![epoch] = @ + 1]]]
           /\ loc' = [loc EXCEPT ![t] =
                  [Return(@) EXCEPT !.guards = Append(@, loc[t].ptr_and_epoch)]]
    /\ pc' = [pc EXCEPT ![t] = "idle"]
    /\ UNCHANGED <<heap, head, tail, hpVars, hist, elimination_array>>

\* read: readers[epoch].fetch_add(1) unless this thread already reads in that
\* epoch, nested[epoch] += 1, and the guard is returned
RcuReadBump(t) ==
    /\ pc[t] = "read_bump"
    /\ LET epoch == loc[t].ptr_and_epoch.epoch
           tr    == THREAD_RECORD[t]
           bump  == ~tr.present \/ tr.nested[epoch] = 0
       IN  /\ rcu' = [rcu EXCEPT !.readers[epoch] = IF bump THEN @ + 1 ELSE @]
           /\ THREAD_RECORD' = [THREAD_RECORD EXCEPT ![t] =
                  [present |-> TRUE, nested |-> [tr.nested EXCEPT ![epoch] = @ + 1]]]
           /\ loc' = [loc EXCEPT ![t] =
                  [Return(@) EXCEPT !.guards = Append(@, loc[t].ptr_and_epoch)]]
    /\ pc' = [pc EXCEPT ![t] = "idle"]
    /\ UNCHANGED <<heap, head, tail, hpVars, hist, elimination_array>>

\* Drop for RcuReadGuard, of any guard the thread holds
RcuGuardDrop(t) ==
    /\ pc[t] = "idle"
    /\ \E i \in 1..Len(loc[t].guards) :
         LET epoch   == loc[t].guards[i].epoch
             nested  == [THREAD_RECORD[t].nested EXCEPT ![epoch] = @ - 1]
         IN  /\ rcu' = [rcu EXCEPT !.readers[epoch] = IF nested[epoch] = 0 THEN @ - 1 ELSE @]
             /\ THREAD_RECORD' = [THREAD_RECORD EXCEPT ![t] =
                    [present |-> ~(nested[epoch] = 0 /\ nested[1 - epoch] = 0),
                     nested |-> nested]]
             /\ loc' = [loc EXCEPT ![t].guards =
                    SubSeq(@, 1, i - 1) \o SubSeq(@, i + 1, Len(@))]
    /\ UNCHANGED <<heap, head, tail, hpVars, pc, hist, elimination_array>>

\* update: Box::new(data)
RcuUpdateAlloc(t) ==
    /\ t = 1 /\ Invokes(t, "update")
    /\ \E a \in Allocatable(heap) :
         /\ heap' = [heap EXCEPT ![a] = Node(loc[t].cnt.update + loc[t].cnt.try_update + 1, NULL)]
         /\ loc' = [loc EXCEPT ![t] = [Called(@, "update") EXCEPT !.op = "update",
                                        !.new_node = a]]
    /\ pc' = [pc EXCEPT ![t] = "rcu_load"]
    /\ UNCHANGED <<head, tail, hpVars, hist, otherVars>>

\* update, try_update: the Acquire load of ptr_and_epoch
RcuLoad(t) ==
    /\ pc[t] = "rcu_load" \/ (t = 1 /\ Invokes(t, "try_update"))
    /\ loc' = [loc EXCEPT ![t] =
                 [(IF pc[t] = "idle" THEN [Called(@, "try_update") EXCEPT !.op = "try_update"]
                   ELSE @) EXCEPT !.ptr_and_epoch = rcu.ptr_and_epoch]]
    /\ pc' = [pc EXCEPT ![t] = "rcu_sync"]
    /\ UNCHANGED <<heap, head, tail, hpVars, hist, otherVars>>

\* try_synchronize going on whatever readers[sync_epoch] holds
RcuSyncLoadIgnoresReaders(t) ==
    /\ pc[t] = "rcu_sync"
    /\ LET sync_epoch == 1 - loc[t].ptr_and_epoch.epoch
       IN  IF rcu.readers[sync_epoch] = 0 \/ loc[t].op = "try_update"
           THEN pc' = [pc EXCEPT ![t] = "rcu_replace"] /\ UNCHANGED loc
           ELSE UNCHANGED <<pc, loc>>
    /\ UNCHANGED <<heap, head, tail, hpVars, hist, otherVars>>

\* synchronize, try_synchronize: the load of readers[sync_epoch], the epoch about
\* to be installed.  synchronize spins while it is non-zero, try_synchronize
\* returns false, and try_update with it (the caller finds the result in op).
RcuSyncLoad(t) ==
    /\ pc[t] = "rcu_sync"
    /\ LET sync_epoch == 1 - loc[t].ptr_and_epoch.epoch
       IN  IF rcu.readers[sync_epoch] = 0
           THEN pc' = [pc EXCEPT ![t] = "rcu_replace"] /\ UNCHANGED loc
           ELSE IF loc[t].op = "update"
           THEN UNCHANGED <<pc, loc>>
           ELSE /\ pc' = [pc EXCEPT ![t] = "idle"]
                /\ loc' = [loc EXCEPT ![t] = [Return(@) EXCEPT !.op = "try_update: false"]]
    /\ UNCHANGED <<heap, head, tail, hpVars, hist, otherVars>>

\* synchronize freeing the pointer it was handed instead of the one it replaced
RcuSyncReplaceFreesCurrent(t) ==
    /\ pc[t] = "rcu_replace"
    /\ LET ptr == loc[t].ptr_and_epoch.ptr
       IN  /\ rcu' = [rcu EXCEPT !.previous_ptr = ptr]
           /\ heap' = Free(heap, {ptr})
    /\ pc' = [pc EXCEPT ![t] = IF loc[t].op = "update" THEN "rcu_cas" ELSE "rcu_try_alloc"]
    /\ UNCHANGED <<head, tail, hpVars, loc, hist, elimination_array, THREAD_RECORD>>

\* synchronize, try_synchronize: previous_ptr.replace(ptr); the displaced pointer
\* is freed if it is non-null and differs from ptr
RcuSyncReplace(t) ==
    /\ pc[t] = "rcu_replace"
    /\ LET ptr          == loc[t].ptr_and_epoch.ptr
           previous_ptr == rcu.previous_ptr
       IN  /\ rcu' = [rcu EXCEPT !.previous_ptr = ptr]
           /\ heap' = IF previous_ptr # NULL /\ previous_ptr # ptr
                      THEN Free(heap, {previous_ptr}) ELSE heap
    /\ pc' = [pc EXCEPT ![t] = IF loc[t].op = "update" THEN "rcu_cas" ELSE "rcu_try_alloc"]
    /\ UNCHANGED <<head, tail, hpVars, loc, hist, elimination_array, THREAD_RECORD>>

\* try_update: Box::new(data), after try_synchronize succeeded
RcuTryAlloc(t) ==
    /\ pc[t] = "rcu_try_alloc"
    /\ \E a \in Allocatable(heap) :
         /\ heap' = [heap EXCEPT ![a] = Node(loc[t].cnt.update + loc[t].cnt.try_update, NULL)]
         /\ loc' = [loc EXCEPT ![t].new_node = a]
    /\ pc' = [pc EXCEPT ![t] = "rcu_cas"]
    /\ UNCHANGED <<head, tail, hpVars, hist, otherVars>>

\* update, try_update: ptr_and_epoch.compare_exchange(current, new | next_epoch).
\* On failure update retries and try_update frees the new box and returns false.
RcuCas(t) ==
    /\ pc[t] = "rcu_cas"
    /\ LET next_epoch == 1 - loc[t].ptr_and_epoch.epoch
           ok         == rcu.ptr_and_epoch = loc[t].ptr_and_epoch
       IN  /\ rcu' = IF ok THEN [rcu EXCEPT !.ptr_and_epoch =
                                   [ptr |-> loc[t].new_node, epoch |-> next_epoch]]
                     ELSE rcu
           /\ heap' = IF ~ok /\ loc[t].op = "try_update"
                      THEN Free(heap, {loc[t].new_node}) ELSE heap
           /\ pc' = [pc EXCEPT ![t] = IF ~ok /\ loc[t].op = "update"
                                      THEN "rcu_load" ELSE "idle"]
           /\ loc' = [loc EXCEPT ![t] =
                        IF loc[t].op = "update" THEN (IF ok THEN Return(@) ELSE @)
                        ELSE [Return(@) EXCEPT !.op = IF ok THEN "try_update: true"
                                                      ELSE "try_update: false"]]
    /\ UNCHANGED <<head, tail, hpVars, hist, elimination_array, THREAD_RECORD>>

\* Deref for RcuReadGuard, of any guard the thread holds: the value read goes to
\* hist.returned.  The read of a freed box yields what the box held or anything
\* else (-1).
RcuDeref(t) ==
    /\ pc[t] = "idle"
    /\ \E i \in 1..Len(loc[t].guards) :
         LET p == loc[t].guards[i].ptr
         IN  \E d \in (IF heap[p].st = "live" THEN {heap[p].data} ELSE {heap[p].data, -1}) :
               hist' = [Touch(hist, heap, p, "deref") EXCEPT !.returned = @ \cup {d}]
    /\ UNCHANGED <<heap, head, tail, hpVars, pc, loc, otherVars>>

StepRCU(t) ==
    \/ RcuReadLoad(t) \/ RcuReadBump(t) \/ RcuGuardDrop(t)
    \/ RcuUpdateAlloc(t) \/ RcuLoad(t) \/ RcuSyncLoad(t) \/ RcuSyncReplace(t)
    \/ RcuTryAlloc(t) \/ RcuCas(t) \/ RcuDeref(t)

NextRCU == \E t \in Threads : StepRCU(t)

SpecRCU == InitRCU /\ [][NextRCU]_vars

\* C2: the address a read() has loaded is not freed from that load until the
\* guard it returns is dropped (one writer, thread 1)
C2_ReadersNeverSeeFreed ==
    \A t \in Threads :
        /\ pc[t] = "read_bump" => heap[loc[t].ptr_and_epoch.ptr].st = "live"
        /\ \A i \in 1..Len(loc[t].guards) : heap[loc[t].guards[i].ptr].st = "live"

\* C18: every dereference of a read guard yields the initial value (0) or one of
\* the values the writer has passed to update or try_update so far (1, 2, ...),
\* and while the writer is idle the current box is live and holds such a value
C18_ReadsYieldWrittenValues ==
    LET written == 0..(loc[1].cnt["update"] + loc[1].cnt["try_update"])
    IN  /\ hist.returned \subseteq written
        /\ pc[1] = "idle" =>
              /\ heap[rcu.ptr_and_epoch.ptr].st = "live"
              /\ heap[rcu.ptr_and_epoch.ptr].data \in written

\* C19: a try_update that finds readers[next_epoch] non-zero returns false and
\* changes neither the heap nor ptr_and_epoch nor previous_ptr; a try_update
\* that returns true has installed its new box with the epoch bit flipped
C19_TryUpdate ==
    [][\A t \in Threads :
          LET busy == /\ pc[t] = "rcu_sync" /\ loc[t].op = "try_update" /\ pc'[t] # pc[t]
                      /\ rcu.readers[1 - loc[t].ptr_and_epoch.epoch] # 0
              true == loc[t].op = "try_update" /\ loc'[t].op = "try_update: true"
          IN  /\ busy => /\ pc'[t] = "idle" /\ loc'[t].op = "try_update: false"
                         /\ heap' = heap /\ rcu' = rcu
              /\ true => /\ rcu'.ptr_and_epoch.ptr = loc[t].new_node
                         /\ rcu'.ptr_and_epoch.epoch = 1 - rcu.ptr_and_epoch.epoch
                         /\ heap'[loc[t].new_node].st = "live"
                         /\ heap'[loc[t].new_node].data
                              = loc[t].cnt["update"] + loc[t].cnt["try_update"]]_vars

\* try_update has returned false to the writer while a reader of the epoch it
\* was about to install still holds its guard
C19_Witness ==
    /\ pc[1] = "idle" /\ loc[1].op = "try_update: false"
    /\ rcu.readers[1 - rcu.ptr_and_epoch.epoch] # 0

\* C25: the update that installs a new box leaves the box it displaces live and
\* in previous_ptr; that box stays live while no later update has passed its
\* reader drain; and a box is freed only as the previous_ptr of a later
\* update or try_update, which has found readers[next_epoch] zero and has not
\* yet installed its own box, one version after the box was displaced
C25_GracePeriod ==
    [][/\ rcu'.ptr_and_epoch # rcu.ptr_and_epoch =>
             LET old == rcu.ptr_and_epoch.ptr
             IN  /\ heap[old].st = "live" /\ heap'[old].st = "live"
                 /\ rcu'.previous_ptr = old
                 /\ heap'[rcu'.ptr_and_epoch.ptr].data > heap'[old].data
       /\ (pc[1] \notin {"rcu_cas", "rcu_try_alloc"} /\ rcu.previous_ptr # NULL) =>
             /\ heap[rcu.previous_ptr].st = "live"
             /\ rcu.previous_ptr # rcu.ptr_and_epoch.ptr
       /\ \A a \in Addr : heap[a].st = "live" /\ heap'[a].st = "freed" =>
             /\ a = rcu.previous_ptr /\ a # rcu.ptr_and_epoch.ptr
             /\ pc[1] = "rcu_replace" /\ pc'[1] \in {"rcu_cas", "rcu_try_alloc"}
             /\ rcu'.previous_ptr = rcu.ptr_and_epoch.ptr
             /\ rcu'.ptr_and_epoch = rcu.ptr_and_epoch
             /\ heap[a].data < heap[rcu.ptr_and_epoch.ptr].data]_vars

\* the second update has freed the first box and returned; the box it displaced
\* is live in previous_ptr
C25_Witness ==
    /\ pc[1] = "idle" /\ rcu.previous_ptr # NULL
    /\ heap[rcu.previous_ptr].st = "live"
    /\ \E a \in Addr : heap[a].st = "freed"

\* C26: readers[e] is the number of threads whose nested count for e is
\* non-zero, and a thread's nested count for e is the number of guards of epoch
\* e it holds; a read by a thread that already holds a guard of that epoch
\* leaves readers[e] as it is, a guard drop decrements readers[e] only when it
\* takes the thread's nested count to zero, and no count goes below zero
C26_ReaderCounting ==
    [][\A e \in 0..1 :
          /\ rcu.readers[e] = Cardinality({t \in Threads : THREAD_RECORD[t].nested[e] # 0})
          /\ rcu.readers[e] >= 0 /\ rcu'.readers[e] >= 0
          /\ \A t \in Threads :
                LET n == THREAD_RECORD[t].nested[e]
                    m == THREAD_RECORD'[t].nested[e]
                IN  /\ n >= 0 /\ m >= 0
                    /\ n = Cardinality({i \in 1..Len(loc[t].guards) :
                                           loc[t].guards[i].epoch = e})
                    /\ THREAD_RECORD[t].present <=>
                          \E f \in 0..1 : THREAD_RECORD[t].nested[f] # 0
                    /\ (n > 0 /\ m > n) => rcu'.readers[e] = rcu.readers[e]
                    /\ (n = 0 /\ m > n) => rcu'.readers[e] = rcu.readers[e] + 1
                    /\ (m < n /\ m > 0) => rcu'.readers[e] = rcu.readers[e]
                    /\ (m < n /\ m = 0) => rcu'.readers[e] = rcu.readers[e] - 1]_vars

\* a thread holds two guards of one epoch, counted once, and has dropped neither
C26_Witness ==
    \E t \in Threads : \E e \in 0..1 :
        THREAD_RECORD[t].nested[e] = 2 /\ rcu.readers[e] = 1

\* C27: the CAS by which update installs its box and returns is taken only
\* while readers[next_epoch], the counter of the epoch it installs, is zero
C27_UpdateBlocks ==
    [][(loc[1].op = "update" /\ rcu'.ptr_and_epoch # rcu.ptr_and_epoch) =>
          rcu.readers[rcu'.ptr_and_epoch.epoch] = 0]_vars

\* ------------------------------------------------------------------ Backoff

\* every thread owns a Backoff built by with_params from arguments that pass the
\* four assertions
InitBackoff ==
    /\ loc \in [Threads ->
          {[Locals EXCEPT !.backoff = with_params(initial, threshold_exponent)] :
              <<initial, threshold_exponent>> \in
                  {a \in (0..MaxInitial) \X (0..MaxExponent) :
                      /\ a[1] > 0 /\ a[2] > 0 /\ a[2] < 32
                      /\ a[1] < 2 ^ a[2]}}]
    /\ heap = [a \in Addr |-> FreshNode]
    /\ head = NULL /\ tail = NULL
    /\ InitHP
    /\ pc = [t \in Threads |-> "idle"]
    /\ hist = InitHist
    /\ elimination_array = <<>> /\ rcu = <<>> /\ THREAD_RECORD = <<>>

\* Backoff::spin: after the spin loop, current <<= 1 while it is below threshold.
\* current < threshold <= 2^31 there, so the u32 shift loses no bit.
BackoffSpin(t) ==
    /\ loc[t].backoff.current < loc[t].backoff.threshold
    /\ loc' = [loc EXCEPT ![t].backoff.current = @ * 2]
    /\ UNCHANGED <<heap, head, tail, hpVars, pc, hist, otherVars>>

\* Backoff::reset
BackoffReset(t) ==
    /\ loc' = [loc EXCEPT ![t].backoff.current = loc[t].backoff.initial]
    /\ UNCHANGED <<heap, head, tail, hpVars, pc, hist, otherVars>>

NextBackoff == \E t \in Threads : BackoffSpin(t) \/ BackoffReset(t)

SpecBackoff == InitBackoff /\ [][NextBackoff]_vars

\* C28: current stays between initial and threshold
C28_BackoffCap ==
    \A t \in Threads :
        /\ loc[t].backoff.initial <= loc[t].backoff.current
        /\ loc[t].backoff.current <= loc[t].backoff.threshold

\* ----------------------------------------------------------------- OMSQueue

\* enqueue: Box::new of the node, next and prev null
OEnqAlloc(t) ==
    /\ Calls(t, "enq")
    /\ \E a \in Allocatable(heap) :
         LET v == Len(hist.producer) + 1
         IN  /\ heap' = [heap EXCEPT ![a] = Node(v, NULL)]
             /\ loc' = [loc EXCEPT ![t] = [Called(@, "enq") EXCEPT !.op = "enqueue",
                                            !.value = v, !.new_node = a]]
             /\ hist' = [hist EXCEPT !.producer = Append(@, t)]
    /\ pc' = [pc EXCEPT ![t] = "oenq_load"]
    /\ UNCHANGED <<head, tail, hpVars, otherVars>>

\* enqueue: let tail = self.tail.load()
OEnqLoad(t) ==
    /\ pc[t] = "oenq_load"
    /\ loc' = [loc EXCEPT ![t].tail_ptr = tail]
    /\ pc' = [pc EXCEPT ![t] = "oenq_protect"]
    /\ UNCHANGED <<heap, head, tail, hpVars, hist, otherVars>>

\* enqueue: guard.protect(tail); a null tail panics
OEnqProtect(t) ==
    /\ pc[t] = "oenq_protect"
    /\ LET r == protect(p_list, guard[t], loc[t].tail_ptr)
       IN  /\ p_list' = r.pl
           /\ guard' = [guard EXCEPT ![t] = r.g]
           /\ loc' = [loc EXCEPT ![t].protected_tail = r.pp]
           /\ pc' = [pc EXCEPT ![t] =
                        CASE r.res = "Ok" -> "oenq_validate"
                          [] r.res = "NoAvailableIndices" -> "oenq_load"
                          [] r.res = "NullPointer" -> "panic"]
    /\ UNCHANGED <<heap, head, tail, thread_registry, hist, otherVars>>

\* enqueue: new_node.next.store(tail), then tail is read again and compared
OEnqValidate(t) ==
    /\ pc[t] = "oenq_validate"
    /\ heap' = [heap EXCEPT ![loc[t].new_node].next = loc[t].tail_ptr]
    /\ IF loc[t].protected_tail.ptr # tail
       THEN /\ pc' = [pc EXCEPT ![t] = "unprotect"]
            /\ loc' = [loc EXCEPT ![t].ret = "oenq_load"]
       ELSE /\ pc' = [pc EXCEPT ![t] = "oenq_cas"]
            /\ UNCHANGED loc
    /\ UNCHANGED <<head, tail, hpVars, hist, otherVars>>

\* enqueue going on as if its tail CAS had succeeded, tail left where it was
OEnqCasKeepsTail(t) ==
    /\ pc[t] = "oenq_cas"
    /\ IF tail = loc[t].protected_tail.ptr
       THEN /\ pc' = [pc EXCEPT ![t] = "oenq_prev"]
            /\ UNCHANGED loc
       ELSE /\ pc' = [pc EXCEPT ![t] = "unprotect"]
            /\ loc' = [loc EXCEPT ![t].ret = "oenq_load"]
    /\ UNCHANGED <<heap, head, tail, hpVars, hist, otherVars>>

\* enqueue: self.tail.compare_exchange(protected_tail, new_node)
OEnqCas(t) ==
    /\ pc[t] = "oenq_cas"
    /\ IF tail = loc[t].protected_tail.ptr
       THEN /\ tail' = loc[t].new_node
            /\ pc' = [pc EXCEPT ![t] = "oenq_prev"]
            /\ UNCHANGED loc
       ELSE /\ pc' = [pc EXCEPT ![t] = "unprotect"]
            /\ loc' = [loc EXCEPT ![t].ret = "oenq_load"]
            /\ UNCHANGED tail
    /\ UNCHANGED <<heap, head, hpVars, hist, otherVars>>

\* enqueue: protected_tail.prev.store(new_node); returns true
OEnqPrev(t) ==
    /\ pc[t] = "oenq_prev"
    /\ LET p == loc[t].protected_tail.ptr
       IN  /\ heap' = [heap EXCEPT ![p].prev = loc[t].new_node]
           /\ hist' = [Touch(hist, heap, p, "enqueue: tail.prev")
                         EXCEPT !.returned = @ \cup {loc[t].value}]
    /\ pc' = [pc EXCEPT ![t] = "unprotect"]
    /\ loc' = [loc EXCEPT ![t].ret = "idle"]
    /\ UNCHANGED <<head, tail, hpVars, otherVars>>

\* the next iteration of dequeue's loop: every handle goes out of scope
Continue(t, l) ==
    /\ pc' = [pc EXCEPT ![t] = "unprotect"]
    /\ loc' = [loc EXCEPT ![t] = [l EXCEPT !.ret = "odeq_load"]]

\* dequeue: head_ptr.write(self.head.load())
ODeqLoad(t) ==
    /\ Calls(t, "deq") \/ pc[t] = "odeq_load"
    /\ loc' = [loc EXCEPT ![t] = [(IF pc[t] = "idle" THEN Called(@, "deq") ELSE @)
                                    EXCEPT !.head_ptr = head, !.op = "dequeue"]]
    /\ pc' = [pc EXCEPT ![t] = "odeq_protect_head"]
    /\ UNCHANGED <<heap, head, tail, hpVars, hist, otherVars>>

\* dequeue: guard.protect(head_ptr); a null head panics
ODeqProtectHead(t) ==
    /\ pc[t] = "odeq_protect_head"
    /\ LET r == protect(p_list, guard[t], loc[t].head_ptr)
       IN  /\ p_list' = r.pl
           /\ guard' = [guard EXCEPT ![t] = r.g]
           /\ loc' = [loc EXCEPT ![t].protected_head = r.pp]
           /\ pc' = [pc EXCEPT ![t] =
                        CASE r.res = "Ok" -> "odeq_tail"
                          [] r.res = "NoAvailableIndices" -> "odeq_load"
                          [] r.res = "NullPointer" -> "panic"]
    /\ UNCHANGED <<heap, head, tail, thread_registry, hist, otherVars>>

\* dequeue: tail_ptr.write(self.tail.load())
ODeqTail(t) ==
    /\ pc[t] = "odeq_tail"
    /\ loc' = [loc EXCEPT ![t].tail_ptr = tail]
    /\ pc' = [pc EXCEPT ![t] = "odeq_protect_tail"]
    /\ UNCHANGED <<heap, head, tail, hpVars, hist, otherVars>>

\* dequeue: guard.protect(tail_ptr); NoAvailableIndices drops the head handle
\* and continues
ODeqProtectTail(t) ==
    /\ pc[t] = "odeq_protect_tail"
    /\ LET r == protect(p_list, guard[t], loc[t].tail_ptr)
       IN  /\ p_list' = r.pl
           /\ guard' = [guard EXCEPT ![t] = r.g]
           /\ loc' = [loc EXCEPT ![t].protected_tail = r.pp,
                                 ![t].ret = IF r.res = "NoAvailableIndices"
                                            THEN "odeq_load" ELSE @]
           /\ pc' = [pc EXCEPT ![t] =
                        CASE r.res = "Ok" -> "odeq_validate_head"
                          [] r.res = "NoAvailableIndices" -> "unprotect"
                          [] r.res = "NullPointer" -> "panic"]
    /\ UNCHANGED <<heap, head, tail, thread_registry, hist, otherVars>>

\* dequeue: protected_head != self.head.load() (left operand of ||)
ODeqValidateHead(t) ==
    /\ pc[t] = "odeq_validate_head"
    /\ IF loc[t].protected_head.ptr # head
       THEN Continue(t, loc[t])
       ELSE pc' = [pc EXCEPT ![t] = "odeq_validate_tail"] /\ UNCHANGED loc
    /\ UNCHANGED <<heap, head, tail, hpVars, hist, otherVars>>

\* dequeue comparing its two handles without reading self.tail again
ODeqValidateTailStale(t) ==
    /\ pc[t] = "odeq_validate_tail"
    /\ IF loc[t].protected_head.ptr # loc[t].protected_tail.ptr
       THEN pc' = [pc EXCEPT ![t] = "odeq_prev"] /\ UNCHANGED loc
       ELSE /\ pc' = [pc EXCEPT ![t] = "unprotect"]
            /\ loc' = [loc EXCEPT ![t].ret = "idle"]
    /\ UNCHANGED <<heap, head, tail, hpVars, hist, otherVars>>

\* dequeue: protected_tail != self.tail.load(); then head == tail returns None
ODeqValidateTail(t) ==
    /\ pc[t] = "odeq_validate_tail"
    /\ IF loc[t].protected_tail.ptr # tail
       THEN Continue(t, loc[t])
       ELSE IF loc[t].protected_head.ptr # loc[t].protected_tail.ptr
       THEN pc' = [pc EXCEPT ![t] = "odeq_prev"] /\ UNCHANGED loc
       ELSE /\ pc' = [pc EXCEPT ![t] = "unprotect"]
            /\ loc' = [loc EXCEPT ![t].ret = "idle"]
    /\ UNCHANGED <<heap, head, tail, hpVars, hist, otherVars>>

\* dequeue: protected_head.prev.load().is_null(); a null prev calls
\* fix(protected_head, protected_tail), whose current starts as the tail handle
ODeqPrev(t) ==
    /\ pc[t] = "odeq_prev"
    /\ \E n \in Loads(heap, loc[t].protected_head.ptr, "prev") :
         IF n # NULL
         THEN pc' = [pc EXCEPT ![t] = "odeq_recheck"] /\ UNCHANGED loc
         ELSE /\ pc' = [pc EXCEPT ![t] = "fix_check"]
              /\ loc' = [loc EXCEPT ![t].current = loc[t].protected_tail,
                                    ![t].protected_tail = NoPP]
    /\ hist' = Touch(hist, heap, loc[t].protected_head.ptr, "dequeue: head.prev")
    /\ UNCHANGED <<heap, head, tail, hpVars, otherVars>>

\* dequeue: head is read again before prev is followed
ODeqRecheck(t) ==
    /\ pc[t] = "odeq_recheck"
    /\ IF loc[t].protected_head.ptr # head
       THEN Continue(t, loc[t])
       ELSE pc' = [pc EXCEPT ![t] = "odeq_head_prev"] /\ UNCHANGED loc
    /\ UNCHANGED <<heap, head, tail, hpVars, hist, otherVars>>

\* dequeue: let head_prev = protected_head.prev.load()
ODeqHeadPrev(t) ==
    /\ pc[t] = "odeq_head_prev"
    /\ \E n \in Loads(heap, loc[t].protected_head.ptr, "prev") :
         loc' = [loc EXCEPT ![t].head_prev = n]
    /\ hist' = Touch(hist, heap, loc[t].protected_head.ptr, "dequeue: head.prev")
    /\ pc' = [pc EXCEPT ![t] = "odeq_protect_prev"]
    /\ UNCHANGED <<heap, head, tail, hpVars, otherVars>>

\* dequeue: the loop around guard.protect(head_prev); NullPointer panics
ODeqProtectPrev(t) ==
    /\ pc[t] = "odeq_protect_prev"
    /\ LET r == protect(p_list, guard[t], loc[t].head_prev)
       IN  /\ p_list' = r.pl
           /\ guard' = [guard EXCEPT ![t] = r.g]
           /\ loc' = [loc EXCEPT ![t].protected_head_prev = r.pp]
           /\ pc' = [pc EXCEPT ![t] =
                        CASE r.res = "Ok" -> "odeq_validate"
                          [] r.res = "NoAvailableIndices" -> "odeq_protect_prev"
                          [] r.res = "NullPointer" -> "panic"]
    /\ UNCHANGED <<heap, head, tail, thread_registry, hist, otherVars>>

\* dequeue: if self.head.load() != protected_head { continue }
ODeqValidate(t) ==
    /\ pc[t] = "odeq_validate"
    /\ IF head # loc[t].protected_head.ptr
       THEN Continue(t, loc[t])
       ELSE pc' = [pc EXCEPT ![t] = "odeq_cas"] /\ UNCHANGED loc
    /\ UNCHANGED <<heap, head, tail, hpVars, hist, otherVars>>

\* dequeue: self.head.compare_exchange(protected_head, protected_head_prev).  On
\* failure protected_head_prev goes out of scope and fix is called.
ODeqCas(t) ==
    /\ pc[t] = "odeq_cas"
    /\ IF head = loc[t].protected_head.ptr
       THEN /\ head' = loc[t].protected_head_prev.ptr
            /\ hist' = [hist EXCEPT !.deq = Append(@, [t |-> t, v |-> -1])]
            /\ pc' = [pc EXCEPT ![t] = "odeq_retire"]
            /\ UNCHANGED <<loc, p_list, guard>>
       ELSE LET u == unprotect(p_list, guard[t], loc[t].protected_head_prev)
            IN  /\ p_list' = u.pl
                /\ guard' = [guard EXCEPT ![t] = u.g]
                /\ loc' = [loc EXCEPT ![t].protected_head_prev = NoPP,
                                      ![t].current = loc[t].protected_tail,
                                      ![t].protected_tail = NoPP]
                /\ pc' = [pc EXCEPT ![t] = "fix_check"]
                /\ UNCHANGED <<head, hist>>
    /\ UNCHANGED <<heap, tail, thread_registry, otherVars>>

\* dequeue: guard.retire_node(protected_head), which scans past SCAN_THRESHOLD
ODeqRetire(t) ==
    /\ pc[t] = "odeq_retire"
    /\ LET r == retire_node(p_list, guard[t], loc[t].protected_head)
       IN  /\ p_list' = r.pl
           /\ guard' = [guard EXCEPT ![t] = r.g]
           /\ loc' = [loc EXCEPT ![t].protected_head = NoPP, ![t].ret = "odeq_take"]
           /\ pc' = [pc EXCEPT ![t] = IF Len(r.g.d_list) > SCAN_THRESHOLD
                                      THEN "scan" ELSE "odeq_take"]
    /\ UNCHANGED <<heap, head, tail, thread_registry, hist, otherVars>>

\* dequeue taking the payload of the node it has just retired
ODeqTakeRetired(t) ==
    /\ pc[t] = "odeq_take"
    /\ LET p == loc[t].head_ptr
       IN  /\ \E d \in Loads(heap, p, "data") :
                hist' = [Touch(hist, heap, p, "dequeue: head.prev.data")
                           EXCEPT !.deq = Returned(@, t, d)]
           /\ heap' = [heap EXCEPT ![p].data = 0]
    /\ pc' = [pc EXCEPT ![t] = "unprotect"]
    /\ loc' = [loc EXCEPT ![t].ret = "idle"]
    /\ UNCHANGED <<head, tail, hpVars, otherVars>>

\* dequeue: Some(std::mem::take(&mut protected_head_prev.data))
ODeqTake(t) ==
    /\ pc[t] = "odeq_take"
    /\ LET p == loc[t].protected_head_prev.ptr
       IN  /\ \E d \in Loads(heap, p, "data") :
                hist' = [Touch(hist, heap, p, "dequeue: head.prev.data")
                           EXCEPT !.deq = Returned(@, t, d)]
           /\ heap' = [heap EXCEPT ![p].data = 0]
    /\ pc' = [pc EXCEPT ![t] = "unprotect"]
    /\ loc' = [loc EXCEPT ![t].ret = "idle"]
    /\ UNCHANGED <<head, tail, hpVars, otherVars>>

\* fix: while current != head && head == self.head.load(); leaving the loop
\* returns to dequeue's `continue`
FixCheck(t) ==
    /\ pc[t] = "fix_check"
    /\ IF loc[t].current.ptr # loc[t].protected_head.ptr /\ loc[t].protected_head.ptr = head
       THEN pc' = [pc EXCEPT ![t] = "fix_next"] /\ UNCHANGED loc
       ELSE Continue(t, loc[t])
    /\ UNCHANGED <<heap, head, tail, hpVars, hist, otherVars>>

\* fix: (*current).next.load()
FixNext(t) ==
    /\ pc[t] = "fix_next"
    /\ \E n \in Loads(heap, loc[t].current.ptr, "next") :
         loc' = [loc EXCEPT ![t].head_next = n]
    /\ hist' = Touch(hist, heap, loc[t].current.ptr, "fix: current.next")
    /\ pc' = [pc EXCEPT ![t] = "fix_protect"]
    /\ UNCHANGED <<heap, head, tail, hpVars, otherVars>>

\* fix: guard.protect of the loaded next, with no re-validation.  NullPointer
\* returns if head has moved and panics otherwise.
FixProtect(t) ==
    /\ pc[t] = "fix_protect"
    /\ LET r == protect(p_list, guard[t], loc[t].head_next)
       IN  /\ p_list' = r.pl
           /\ guard' = [guard EXCEPT ![t] = r.g]
           /\ CASE r.res = "Ok" ->
                    /\ pc' = [pc EXCEPT ![t] = "fix_prev"]
                    /\ loc' = [loc EXCEPT ![t].current_next = r.pp]
                [] r.res = "NoAvailableIndices" ->
                    /\ pc' = [pc EXCEPT ![t] = "fix_check"]
                    /\ UNCHANGED loc
                [] r.res = "NullPointer" ->
                    IF loc[t].protected_head.ptr # head
                    THEN Continue(t, loc[t])
                    ELSE pc' = [pc EXCEPT ![t] = "panic"] /\ UNCHANGED loc
    /\ UNCHANGED <<heap, head, tail, thread_registry, hist, otherVars>>

\* fix: if current_next.prev.load().is_null() { current_next.prev.store(current) },
\* the load; a non-null prev moves on: current = current_next, which drops the
\* handle current held
FixPrev(t) ==
    /\ pc[t] = "fix_prev"
    /\ \E n \in Loads(heap, loc[t].current_next.ptr, "prev") :
         IF n = NULL
         THEN /\ pc' = [pc EXCEPT ![t] = "fix_store"]
              /\ UNCHANGED <<loc, p_list, guard>>
         ELSE LET u == unprotect(p_list, guard[t], loc[t].current)
              IN  /\ p_list' = u.pl
                  /\ guard' = [guard EXCEPT ![t] = u.g]
                  /\ loc' = [loc EXCEPT ![t].current = loc[t].current_next,
                                        ![t].current_next = NoPP]
                  /\ pc' = [pc EXCEPT ![t] = "fix_check"]
    /\ hist' = Touch(hist, heap, loc[t].current_next.ptr, "fix: current_next.prev")
    /\ UNCHANGED <<heap, head, tail, thread_registry, otherVars>>

\* a fix that stores the tail, where it started, as every prev link
FixStoreTail(t) ==
    /\ pc[t] = "fix_store"
    /\ heap' = [heap EXCEPT ![loc[t].current_next.ptr].prev = tail]
    /\ hist' = Touch(hist, heap, loc[t].current_next.ptr, "fix: current_next.prev")
    /\ LET u == unprotect(p_list, guard[t], loc[t].current)
       IN  /\ p_list' = u.pl
           /\ guard' = [guard EXCEPT ![t] = u.g]
    /\ loc' = [loc EXCEPT ![t].current = loc[t].current_next, ![t].current_next = NoPP]
    /\ pc' = [pc EXCEPT ![t] = "fix_check"]
    /\ UNCHANGED <<head, tail, thread_registry, otherVars>>

\* a fix that walks the chain without storing any prev link
FixStoreSkipped(t) ==
    /\ pc[t] = "fix_store"
    /\ LET u == unprotect(p_list, guard[t], loc[t].current)
       IN  /\ p_list' = u.pl
           /\ guard' = [guard EXCEPT ![t] = u.g]
    /\ loc' = [loc EXCEPT ![t].current = loc[t].current_next, ![t].current_next = NoPP]
    /\ pc' = [pc EXCEPT ![t] = "fix_check"]
    /\ UNCHANGED <<heap, hist, head, tail, thread_registry, otherVars>>

\* fix: current_next.prev.store(current); current = current_next
FixStore(t) ==
    /\ pc[t] = "fix_store"
    /\ heap' = [heap EXCEPT ![loc[t].current_next.ptr].prev = loc[t].current.ptr]
    /\ hist' = Touch(hist, heap, loc[t].current_next.ptr, "fix: current_next.prev")
    /\ LET u == unprotect(p_list, guard[t], loc[t].current)
       IN  /\ p_list' = u.pl
           /\ guard' = [guard EXCEPT ![t] = u.g]
    /\ loc' = [loc EXCEPT ![t].current = loc[t].current_next, ![t].current_next = NoPP]
    /\ pc' = [pc EXCEPT ![t] = "fix_check"]
    /\ UNCHANGED <<head, tail, thread_registry, otherVars>>

StepOMSQ(t) ==
    \/ RegisterLoad(t) \/ RegisterCas(t) \/ DropGuard(t)
    \/ ScanLoad(t) \/ ScanFree(t) \/ DropRelease(t) \/ Unprotect(t)
    \/ OEnqAlloc(t) \/ OEnqLoad(t) \/ OEnqProtect(t) \/ OEnqValidate(t)
    \/ OEnqCas(t) \/ OEnqPrev(t)
    \/ ODeqLoad(t) \/ ODeqProtectHead(t) \/ ODeqTail(t) \/ ODeqProtectTail(t)
    \/ ODeqValidateHead(t) \/ ODeqValidateTail(t) \/ ODeqPrev(t) \/ ODeqRecheck(t)
    \/ ODeqHeadPrev(t) \/ ODeqProtectPrev(t) \/ ODeqValidate(t) \/ ODeqCas(t)
    \/ ODeqRetire(t) \/ ODeqTake(t)
    \/ FixCheck(t) \/ FixNext(t) \/ FixProtect(t) \/ FixPrev(t) \/ FixStore(t)

NextOMSQ == \E t \in Threads : StepOMSQ(t)

\* a client that enqueues, dequeues twice, drops its guard, registers again and
\* enqueues twice more, beside a client that enqueues and dequeues twice
FixProgs ==
    [t \in Threads |->
        CASE t = 1 -> <<"enq", "deq", "deq", "drop", "enq", "enq", "halt">>
          [] t = 2 -> <<"enq", "deq", "deq", "halt">>
          [] OTHER -> <<"halt">>]

SpecOMSQFix == MSQueue_new(FixProgs) /\ [][NextOMSQ]_vars

\* the payloads of the nodes after p along prev up to the node q, at most n of them
RECURSIVE ChainPrev(_, _, _, _)
ChainPrev(h, p, q, n) ==
    IF n = 0 \/ p = q \/ h[p].prev = NULL THEN <<>>
    ELSE <<h[h[p].prev].data>> \o ChainPrev(h, h[p].prev, q, n - 1)

\* C7: no value is returned by two dequeues, every returned value was enqueued,
\* and when no operation is running every value whose enqueue returned has been
\* dequeued or is still in the queue
C7_OConservation ==
    /\ \A i, j \in 1..Len(hist.deq) :
         i # j /\ hist.deq[i].v # -1 => hist.deq[i].v # hist.deq[j].v
    /\ Dequeued \subseteq 1..Len(hist.producer)
    /\ Quiescent =>
         hist.returned = Dequeued \cup Range(ChainPrev(heap, head, tail, MaxNodes))

\* only thread t has called the queue so far
OnlyThread(t) ==
    /\ \A i \in 1..Len(hist.producer) : hist.producer[i] = t
    /\ \A i \in 1..Len(hist.deq) : hist.deq[i].t = t
    /\ \A u \in Threads \ {t} : loc[u].op = "none"

\* C8: two values of one producer leave the OMSQueue in the order they were
\* enqueued (hist.deq is in head-CAS order), and while a single thread uses the
\* queue its i-th successful dequeue returns the i-th value it enqueued
C8_OProducerFifo ==
    /\ \A i, j \in 1..Len(hist.deq) :
         LET a == hist.deq[i].v
             b == hist.deq[j].v
         IN  (i < j /\ a >= 1 /\ b >= 1 /\ hist.producer[a] = hist.producer[b]) => a < b
    /\ \A t \in Threads :
         OnlyThread(t) => \A i \in 1..Len(hist.deq) : hist.deq[i].v \in {-1, i}

\* two values of one producer have been dequeued, by different threads
C8_Witness ==
    \E i, j \in 1..Len(hist.deq) :
        /\ i < j /\ hist.deq[i].v >= 1 /\ hist.deq[j].v >= 1
        /\ hist.producer[hist.deq[i].v] = hist.producer[hist.deq[j].v]
        /\ hist.deq[i].t # hist.deq[j].t

C30_HeadTailNotRetired ==
    \A p \in {head, tail} \ {NULL} : p \notin Retired /\ heap[p].st = "live"

\* C31: no access of fix to current.next or to current_next.prev has found the
\* node freed
C31_FixNoUseAfterFree ==
    hist.uaf \cap {"fix: current.next", "fix: current_next.prev"} = {}

\* ------------------------------------------------------------- TreiberStack

\* TreiberStack::new: null head, every elimination slot EMPTY
InitTS(progs) ==
    /\ heap = [a \in Addr |-> FreshNode]
    /\ head = NULL /\ tail = NULL
    /\ elimination_array = [s \in 0..(ELIMINATION_ARRAY_SIZE - 1) |-> EMPTY]
    /\ InitHP
    /\ pc = [t \in Threads |-> "idle"]
    /\ loc = [t \in Threads |-> [Locals EXCEPT !.prog = progs[t]]]
    /\ hist = InitHist
    /\ rcu = <<>> /\ THREAD_RECORD = <<>>

\* `node as usize` and `node as usize | 1` (nodes are 2-aligned), and back
Untagged(a) == 2 * a
Tagged(a) == 2 * a + 1
NodeOf(slot_value) == slot_value \div 2

\* rng.random_range(0..ELIMINATION_ARRAY_SIZE): slots of equal content are
\* interchangeable, the lowest of them stands for all
SlotChoices ==
    {s \in DOMAIN elimination_array :
        \A r \in DOMAIN elimination_array : r < s => elimination_array[r] # elimination_array[s]}

\* push or pop returns: the call is logged, the handles go out of scope
Returns(t, call, v) ==
    /\ hist' = [hist EXCEPT !.log = Append(@, <<call, v>>)]
    /\ pc' = [pc EXCEPT ![t] = IF Held(loc[t]) = {} THEN "idle" ELSE "unprotect"]
    /\ loc' = [loc EXCEPT ![t] = IF Held(@) = {} THEN Return(@) ELSE [@ EXCEPT !.ret = "idle"]]

\* push: Box::new of the node; push takes no guard
PushAlloc(t) ==
    /\ Invokes(t, "push")
    /\ \E a \in Allocatable(heap) :
         LET v == Len(hist.producer) + 1
         IN  /\ heap' = [heap EXCEPT ![a] = Node(v, NULL)]
             /\ loc' = [loc EXCEPT ![t] = [Called(@, "push") EXCEPT !.op = "push",
                                            !.value = v, !.new_node = a]]
             /\ hist' = [hist EXCEPT !.producer = Append(@, t)]
    /\ pc' = [pc EXCEPT ![t] = "push_load"]
    /\ UNCHANGED <<head, tail, hpVars, otherVars>>

\* push that leaves new_node.next null
PushLoadUnlinked(t) ==
    /\ pc[t] = "push_load"
    /\ loc' = [loc EXCEPT ![t].head_ptr = head]
    /\ pc' = [pc EXCEPT ![t] = "push_cas"]
    /\ UNCHANGED <<heap, head, tail, hpVars, hist, otherVars>>

\* push: head = self.head.load(); (*new_node).next.store(head)
PushLoad(t) ==
    /\ pc[t] = "push_load"
    /\ loc' = [loc EXCEPT ![t].head_ptr = head]
    /\ heap' = [heap EXCEPT ![loc[t].new_node].next = head]
    /\ hist' = Touch(hist, heap, loc[t].new_node, "push: new_node.next")
    /\ pc' = [pc EXCEPT ![t] = "push_cas"]
    /\ UNCHANGED <<head, tail, hpVars, otherVars>>

\* push: self.head.compare_exchange_weak(head, new_node); a failure past
\* ELIMINATION_THRESHOLD goes to try_elimination_push
PushCas(t) ==
    /\ pc[t] = "push_cas"
    /\ \E ok \in WeakCas(head, loc[t].head_ptr) :
         IF ok
         THEN /\ head' = loc[t].new_node
              /\ Returns(t, "push", loc[t].value)
         ELSE /\ pc' = [pc EXCEPT ![t] = IF loc[t].loop_counter < ELIMINATION_THRESHOLD
                                         THEN "push_load" ELSE "epush"]
              /\ loc' = [loc EXCEPT ![t].loop_counter =
                           IF @ < ELIMINATION_THRESHOLD THEN @ + 1 ELSE @]
              /\ UNCHANGED <<head, hist>>
    /\ UNCHANGED <<heap, tail, hpVars, otherVars>>

\* try_elimination_push: one round of the loop over random slots.  EMPTY takes
\* the node and waits; POP takes the tagged node and returns Ok; any other
\* content ends, after the remaining rounds, in Err(NoSlotsAvailable), and push
\* starts again with loop_counter = 0.
EPush(t) ==
    /\ pc[t] = "epush"
    /\ \E s \in SlotChoices :
         LET slot_value == elimination_array[s]
         IN  CASE slot_value = EMPTY ->
                    /\ elimination_array' =
                         [elimination_array EXCEPT ![s] = Untagged(loc[t].new_node)]
                    /\ pc' = [pc EXCEPT ![t] = "epush_wait"]
                    /\ loc' = [loc EXCEPT ![t].slot_id = s]
                    /\ UNCHANGED hist
               [] slot_value = POP ->
                    /\ elimination_array' =
                         [elimination_array EXCEPT ![s] = Tagged(loc[t].new_node)]
                    /\ Returns(t, "push", loc[t].value)
               [] OTHER ->
                    /\ pc' = [pc EXCEPT ![t] = "push_load"]
                    /\ loc' = [loc EXCEPT ![t].loop_counter = 0]
                    /\ UNCHANGED <<elimination_array, hist>>
    /\ UNCHANGED <<heap, head, tail, hpVars, rcu, THREAD_RECORD>>

\* try_elimination_push: the wait for a pop.  A load that finds another value
\* than the node returns Ok; after the last load the compare_exchange(node, EMPTY)
\* returns Err(NoRendezvous) if it succeeds and Ok if it fails.
EPushWait(t) ==
    /\ pc[t] = "epush_wait"
    /\ IF elimination_array[loc[t].slot_id] = Untagged(loc[t].new_node)
       THEN /\ elimination_array' = [elimination_array EXCEPT ![loc[t].slot_id] = EMPTY]
            /\ pc' = [pc EXCEPT ![t] = "push_load"]
            /\ loc' = [loc EXCEPT ![t].loop_counter = 0]
            /\ UNCHANGED hist
       ELSE /\ Returns(t, "push", loc[t].value)
            /\ UNCHANGED elimination_array
    /\ UNCHANGED <<heap, head, tail, hpVars, rcu, THREAD_RECORD>>

\* pop: head_ptr = self.head.load()
PopLoad(t) ==
    /\ Calls(t, "pop") \/ pc[t] = "pop_load"
    /\ loc' = [loc EXCEPT ![t] = [(IF pc[t] = "idle" THEN Called(@, "pop") ELSE @)
                                    EXCEPT !.head_ptr = head, !.op = "pop"]]
    /\ pc' = [pc EXCEPT ![t] = "pop_protect"]
    /\ UNCHANGED <<heap, head, tail, hpVars, hist, otherVars>>

\* pop: guard.protect(head_ptr); NullPointer returns None
PopProtect(t) ==
    /\ pc[t] = "pop_protect"
    /\ LET r == protect(p_list, guard[t], loc[t].head_ptr)
       IN  /\ p_list' = r.pl
           /\ guard' = [guard EXCEPT ![t] = r.g]
           /\ CASE r.res = "Ok" ->
                    /\ pc' = [pc EXCEPT ![t] = "pop_validate"]
                    /\ loc' = [loc EXCEPT ![t].protected_head = r.pp]
                    /\ UNCHANGED hist
                [] r.res = "NoAvailableIndices" ->
                    /\ pc' = [pc EXCEPT ![t] = "pop_load"]
                    /\ UNCHANGED <<loc, hist>>
                [] r.res = "NullPointer" -> Returns(t, "pop", 0)
    /\ UNCHANGED <<heap, head, tail, thread_registry, otherVars>>

\* pop going on without re-reading head after the protect
PopValidateSkipped(t) ==
    /\ pc[t] = "pop_validate"
    /\ pc' = [pc EXCEPT ![t] = "pop_next"]
    /\ UNCHANGED <<heap, head, tail, hpVars, loc, hist, otherVars>>

\* pop: if self.head.load() != protected_head { continue }
PopValidate(t) ==
    /\ pc[t] = "pop_validate"
    /\ IF head # loc[t].protected_head.ptr
       THEN /\ pc' = [pc EXCEPT ![t] = "unprotect"]
            /\ loc' = [loc EXCEPT ![t].ret = "pop_load"]
       ELSE /\ pc' = [pc EXCEPT ![t] = "pop_next"]
            /\ UNCHANGED loc
    /\ UNCHANGED <<heap, head, tail, hpVars, hist, otherVars>>

\* pop: next = (*protected_head).next.load()
PopNext(t) ==
    /\ pc[t] = "pop_next"
    /\ \E n \in Loads(heap, loc[t].protected_head.ptr, "next") :
         loc' = [loc EXCEPT ![t].head_next = n]
    /\ hist' = Touch(hist, heap, loc[t].protected_head.ptr, "pop: head.next")
    /\ pc' = [pc EXCEPT ![t] = "pop_cas"]
    /\ UNCHANGED <<heap, head, tail, hpVars, otherVars>>

\* a pop whose head CAS succeeds whatever head holds
PopCasUnchecked(t) ==
    /\ pc[t] = "pop_cas"
    /\ head' = loc[t].head_next
    /\ pc' = [pc EXCEPT ![t] = "pop_take"]
    /\ UNCHANGED <<heap, tail, hpVars, loc, hist, otherVars>>

\* pop: self.head.compare_exchange_weak(protected_head, next).  A failure counts
\* in loop_couter and continues, or past ELIMINATION_THRESHOLD calls
\* try_elimination_pop with protected_head still in scope.
PopCas(t) ==
    /\ pc[t] = "pop_cas"
    /\ \E ok \in WeakCas(head, loc[t].protected_head.ptr) :
         IF ok
         THEN /\ head' = loc[t].head_next
              /\ pc' = [pc EXCEPT ![t] = "pop_take"]
              /\ UNCHANGED loc
         ELSE /\ IF loc[t].loop_counter < ELIMINATION_THRESHOLD
                 THEN /\ pc' = [pc EXCEPT ![t] = "unprotect"]
                      /\ loc' = [loc EXCEPT ![t].loop_counter = @ + 1,
                                            ![t].ret = "pop_load"]
                 ELSE /\ pc' = [pc EXCEPT ![t] = "epop"]
                      /\ UNCHANGED loc
              /\ UNCHANGED head
    /\ UNCHANGED <<heap, tail, hpVars, hist, otherVars>>

\* pop: data = take(&mut (*protected_head).data); guard.retire_node(protected_head);
\* return Some(data)
PopTake(t) ==
    /\ pc[t] = "pop_take"
    /\ LET p == loc[t].protected_head.ptr
           r == retire_node(p_list, guard[t], loc[t].protected_head)
       IN  /\ \E d \in Loads(heap, p, "data") :
                hist' = [Touch(hist, heap, p, "pop: head.data")
                           EXCEPT !.log = Append(@, <<"pop", d>>)]
           /\ heap' = [heap EXCEPT ![p].data = 0]
           /\ p_list' = r.pl
           /\ guard' = [guard EXCEPT ![t] = r.g]
           /\ IF Len(r.g.d_list) > SCAN_THRESHOLD
              THEN /\ pc' = [pc EXCEPT ![t] = "scan"]
                   /\ loc' = [loc EXCEPT ![t].protected_head = NoPP, ![t].ret = "unprotect"]
              ELSE /\ pc' = [pc EXCEPT ![t] = "idle"]
                   /\ loc' = [loc EXCEPT ![t] = Return(@)]
    /\ UNCHANGED <<head, tail, thread_registry, otherVars>>

\* try_elimination_pop: one round of the loop over random slots.  EMPTY becomes
\* POP and the pop waits; an untagged node is taken out of its slot, freed and its
\* data returned; a tagged value (POP included) ends, after the remaining
\* rounds, in Err(NoSlotsAvailable), and pop continues with loop_couter = 0.
EPop(t) ==
    /\ pc[t] = "epop"
    /\ \E s \in SlotChoices :
         LET slot_value == elimination_array[s]
         IN  CASE slot_value = EMPTY ->
                    /\ elimination_array' = [elimination_array EXCEPT ![s] = POP]
                    /\ pc' = [pc EXCEPT ![t] = "epop_wait"]
                    /\ loc' = [loc EXCEPT ![t].slot_id = s]
                    /\ UNCHANGED <<heap, hist>>
               [] slot_value % 2 = 1 ->
                    /\ pc' = [pc EXCEPT ![t] = "unprotect"]
                    /\ loc' = [loc EXCEPT ![t].loop_counter = 0, ![t].ret = "pop_load"]
                    /\ UNCHANGED <<heap, hist, elimination_array>>
               [] OTHER ->
                    /\ elimination_array' = [elimination_array EXCEPT ![s] = EMPTY]
                    /\ heap' = Free([heap EXCEPT ![NodeOf(slot_value)].data = 0],
                                    {NodeOf(slot_value)})
                    /\ \E d \in Loads(heap, NodeOf(slot_value), "data") :
                         /\ hist' = [Touch(hist, heap, NodeOf(slot_value), "pop: slot.data")
                                       EXCEPT !.log = Append(@, <<"pop", d>>)]
                    /\ pc' = [pc EXCEPT ![t] = "unprotect"]
                    /\ loc' = [loc EXCEPT ![t].ret = "idle"]
    /\ UNCHANGED <<head, tail, hpVars, rcu, THREAD_RECORD>>

\* try_elimination_pop: the wait for a push.  A load that finds another value
\* than POP stores EMPTY, frees the node and returns its data; after the last load
\* compare_exchange(POP, EMPTY) returns Err(NoRendezvous) if it succeeds, and
\* takes the node as well if it fails.
EPopWait(t) ==
    /\ pc[t] = "epop_wait"
    /\ LET slot_value == elimination_array[loc[t].slot_id]
       IN  /\ elimination_array' = [elimination_array EXCEPT ![loc[t].slot_id] = EMPTY]
           /\ IF slot_value = POP
              THEN /\ pc' = [pc EXCEPT ![t] = "unprotect"]
                   /\ loc' = [loc EXCEPT ![t].loop_counter = 0, ![t].ret = "pop_load"]
                   /\ UNCHANGED <<heap, hist>>
              ELSE /\ heap' = Free([heap EXCEPT ![NodeOf(slot_value)].data = 0],
                                   {NodeOf(slot_value)})
                   /\ \E d \in Loads(heap, NodeOf(slot_value), "data") :
                        hist' = [Touch(hist, heap, NodeOf(slot_value), "pop: slot.data")
                                   EXCEPT !.log = Append(@, <<"pop", d>>)]
                   /\ pc' = [pc EXCEPT ![t] = "unprotect"]
                   /\ loc' = [loc EXCEPT ![t].ret = "idle"]
    /\ UNCHANGED <<head, tail, hpVars, rcu, THREAD_RECORD>>

StepTS(t) ==
    \/ RegisterLoad(t) \/ RegisterCas(t) \/ DropGuard(t)
    \/ ScanLoad(t) \/ ScanFree(t) \/ DropRelease(t) \/ Unprotect(t)
    \/ PushAlloc(t) \/ PushLoad(t) \/ PushCas(t) \/ EPush(t) \/ EPushWait(t)
    \/ PopLoad(t) \/ PopProtect(t) \/ PopValidate(t) \/ PopNext(t) \/ PopCas(t)
    \/ PopTake(t) \/ EPop(t) \/ EPopWait(t)

NextTS == \E t \in Threads : StepTS(t)


\* one client pushes while the other pushes, pops and pushes again
ReuseProgs ==
    [t \in Threads |->
        CASE t = 1 -> <<"push", "halt">>
          [] t = 2 -> <<"push", "pop", "push", "drop", "halt">>
          [] OTHER -> <<"halt">>]

SpecTSReuse == InitTS(ReuseProgs) /\ [][NextTS]_vars

\* the payloads of the nodes from p along next, at most n of them
RECURSIVE StackSeq(_, _, _)
StackSeq(h, p, n) ==
    IF n = 0 \/ p = NULL THEN <<>>
    ELSE <<h[p].data>> \o StackSeq(h, h[p].next, n - 1)

\* the values pops have returned, and the values whose push has returned
Popped == {hist.log[i][2] : i \in {j \in 1..Len(hist.log) : hist.log[j][1] = "pop"}} \ {0}
Pushed == {hist.log[i][2] : i \in {j \in 1..Len(hist.log) : hist.log[j][1] = "push"}}

\* the values in nodes that an elimination slot holds (tagged or not)
InSlots ==
    {heap[NodeOf(elimination_array[s])].data :
        s \in {r \in DOMAIN elimination_array : elimination_array[r] > POP}}

\* the values of nodes a pop has unlinked and is about to return
BeingPopped ==
    {heap[loc[t].protected_head.ptr].data : t \in {u \in Threads : pc[u] = "pop_take"}}

\* C9: no value is returned by two pops, every value a pop returns was pushed,
\* and every value whose push returned is on the stack, in an elimination slot,
\* unlinked by a pop that is returning it, or returned by a pop
C9_StackConservation ==
    /\ \A i, j \in 1..Len(hist.log) :
         (i # j /\ hist.log[i][1] = "pop" /\ hist.log[j][1] = "pop" /\ hist.log[i][2] # 0)
             => hist.log[i][2] # hist.log[j][2]
    /\ Popped \subseteq 1..Len(hist.producer)
    /\ Pushed \subseteq
         Range(StackSeq(heap, head, MaxNodes)) \cup InSlots \cup BeingPopped \cup Popped

\* one client alone, as in tests::test_basic_operations
SeqProgs ==
    [t \in Threads |->
        IF t = 1 THEN <<"push", "push", "pop", "push", "pop", "pop", "pop", "drop", "halt">>
        ELSE <<"halt">>]

SpecTSSeq == InitTS(SeqProgs) /\ [][NextTS]_vars

\* the stack a LIFO stack holds after the calls of log, top first
RECURSIVE StackAfter(_)
StackAfter(log) ==
    IF log = <<>> THEN <<>>
    ELSE LET st   == StackAfter(SubSeq(log, 1, Len(log) - 1))
             call == log[Len(log)]
         IN  IF call[1] = "push" THEN <<call[2]>> \o st
             ELSE IF st = <<>> THEN st ELSE Tail(st)

\* C10: when the calls do not overlap, every pop returns the value pushed most
\* recently and not yet popped, and None when the stack holds no value
C10_SequentialLifo ==
    \A i \in 1..Len(hist.log) :
        hist.log[i][1] = "pop" =>
            LET st == StackAfter(SubSeq(hist.log, 1, i - 1))
            IN  hist.log[i][2] = IF st = <<>> THEN 0 ELSE Head(st)

\* push 1, push 2, pop 2, push 3, pop 3, pop 1, and a pop of the empty stack
C10_Witness ==
    hist.log = <<<<"push", 1>>, <<"push", 2>>, <<"pop", 2>>, <<"push", 3>>,
                 <<"pop", 3>>, <<"pop", 1>>, <<"pop", 0>>>>

\* ---- pops racing with pops, pushes and scans

\* one client pushes twice and pops, the other pops twice; both drop their
\* guards, which scans
PopProgs ==
    [t \in Threads |->
        CASE t = 1 -> <<"push", "push", "pop", "drop", "halt">>
          [] t = 2 -> <<"pop", "pop", "drop", "halt">>
          [] OTHER -> <<"halt">>]

SpecTSPop == InitTS(PopProgs) /\ [][NextTS]_vars

\* C32: pop has read the next link and the payload of live nodes only; the head
\* CAS of a pop that succeeds installs the next link the head node holds at
\* that moment, which is the one pop had read; and every node reachable from
\* head is live and on no retire list
C32_PopSafe ==
    [][/\ hist.uaf \cap {"pop: head.next", "pop: head.data"} = {}
       /\ \A t \in Threads : (pc[t] = "pop_cas" /\ pc'[t] = "pop_take") =>
             /\ heap[head].st = "live" /\ head \notin Retired
             /\ head = loc[t].protected_head.ptr
             /\ head' = heap[head].next
       /\ LET nth[i \in 0..MaxNodes] ==
                  IF i = 0 THEN head
                  ELSE IF nth[i - 1] = NULL THEN NULL ELSE heap[nth[i - 1]].next
          IN  \A i \in 0..MaxNodes : nth[i] # NULL =>
                  heap[nth[i]].st = "live" /\ nth[i] \notin Retired]_vars

\* two pops protected the same head node: one has unlinked it and is about to
\* take its payload and retire it, the other is still at its head CAS
C32_Witness ==
    \E t, u \in Threads :
        /\ t # u /\ pc[t] = "pop_take" /\ pc[u] = "pop_cas"
        /\ loc[u].protected_head.ptr = loc[t].protected_head.ptr

\* C35: a node freed by an elimination pop is live, on no retire list and not
\* reachable from head; a push that withdraws its node from a slot, and a push
\* whose head CAS succeeds, still owns the node it holds (live, carrying the
\* value of this push), so no popper has consumed it through the slot
C35_EliminationOwnership ==
    [][LET nth[i \in 0..MaxNodes] ==
               IF i = 0 THEN head
               ELSE IF nth[i - 1] = NULL THEN NULL ELSE heap[nth[i - 1]].next
       IN  \A t \in Threads :
             /\ (pc[t] \in {"epop", "epop_wait"} /\ pc'[t] # pc[t]) =>
                   \A a \in Addr : (heap[a].st # "freed" /\ heap'[a].st = "freed") =>
                       /\ heap[a].st = "live" /\ a \notin Retired
                       /\ \A i \in 0..MaxNodes : nth[i] # a
             /\ ((pc[t] = "epush_wait" /\ pc'[t] = "push_load")
                   \/ (pc[t] = "push_cas" /\ head' # head)) =>
                   /\ heap[loc[t].new_node].st = "live"
                   /\ heap[loc[t].new_node].data = loc[t].value]_vars

\* ---- more claims about MSQueue

\* C33: tail references the last node of the chain or the node just before it
C33_TailLag ==
    heap[tail].next = NULL \/ heap[heap[tail].next].next = NULL

\* ---- more claims about OMSQueue

\* the nodes from tail along next up to head
QueueNodes ==
    LET nth[i \in 0..MaxNodes] ==
            IF i = 0 THEN tail
            ELSE IF nth[i - 1] \in {NULL, head} THEN NULL ELSE heap[nth[i - 1]].next
    IN  {nth[i] : i \in 0..MaxNodes} \ {NULL}

PrevProgs ==
    [t \in Threads |->
        CASE t = 1 -> <<"enq", "enq", "halt">>
          [] t = 2 -> <<"deq", "deq", "drop", "halt">>
          [] OTHER -> <<"halt">>]

\* the dequeuing thread keeps taking steps; the enqueuer may stop anywhere
FairOMSQPrev ==
    MSQueue_new(PrevProgs) /\ [][NextOMSQ]_vars /\ WF_vars(StepOMSQ(2))

\* C34: a dequeue that runs while the enqueuer stands between its tail CAS and
\* its store of prev, with a value in the queue, and that has neither found the
\* queue empty nor made its head CAS yet, eventually returns the oldest value
\* (the k+1st dequeue returns the k+1st value enqueued); and a dequeue returns
\* None only in a state where head = tail, so never on a non-empty queue
C34_PrevRepair ==
    /\ [][\A t \in Threads :
             (/\ pc[t] = "odeq_validate_tail" /\ pc'[t] = "unprotect"
              /\ loc'[t].ret = "idle") => head = tail]_vars
    /\ \A k \in 0..1 :
         (/\ pc[1] = "oenq_prev" /\ loc[2].op = "dequeue"
          /\ pc[2] \notin {"odeq_retire", "odeq_take"}
          /\ ~(pc[2] = "unprotect" /\ loc[2].ret = "idle")
          /\ Len(hist.deq) = k
          /\ Cardinality(hist.returned) + 1 > k)
         ~> (Len(hist.deq) > k /\ hist.deq[k + 1].v = k + 1)

\* the dequeue is inside fix, about to store a missing prev link, while the
\* enqueuer has not stored the prev of the old tail
C34_Witness ==
    pc[1] = "oenq_prev" /\ pc[2] = "fix_store" /\ loc[2].op = "dequeue"

====
